---- MODULE Spec2Model ----
(***************************************************************************)
(* Verification model of the CRM mail agent: the MongoDB thread store      *)
(* (mongodb_memory.py), the orchestrator process_email /                   *)
(* process_with_agent (gmail_mongodb_integration.py,                       *)
(* agent_main_with_mongodb.py), the monitor loop and the /process-emails   *)
(* handler (main.py).                                                      *)
(*                                                                         *)
(* The specifications share one state; each follows a part of it:           *)
(*   SpecStore, SpecClear     the thread store, one Mongo command per step;  *)
(*   SpecMonitor, SpecProcess, SpecShots, SpecOrder, SpecPoll                *)
(*                            the email_monitor_loop process;                *)
(*   SpecApi, SpecEndpoint, SpecRepeat  /process-emails requests;            *)
(*   SpecSend, SpecCerts      send_email_reply and the certificate files;    *)
(*   SpecTools, SpecLog       the tool handlers and the sheet rows;          *)
(*   SpecClean                the text of a message on its way to the store; *)
(*   SpecAgent, SpecHealth    get_shared_agent and /health;                  *)
(*   SpecFetch                fetch_emails_after_time.                       *)
(***************************************************************************)
EXTENDS Integers, Sequences, FiniteSets, TLC

\* ---------------------------------------------------------------- bounds
MaxAdds == 2           \* add_message calls of the store clients together (SpecStore)
MaxMail == 2           \* messages that arrive in the mailbox
MaxRequests == 2       \* /process-emails requests begun (SpecApi)
MaxCerts == 2          \* certificate files the tools write (SpecSend)
MaxSends == 2          \* send_email_reply calls made (SpecSend)
MaxSendCalls == 4      \* messages().send calls within one send_email_reply call
MaxToolCalls == 3      \* tool handler calls (SpecTools)
MaxInbound == 1        \* messages that arrive in the mailbox (SpecProcess)
MaxBody == 2           \* tokens of a message body (SpecClean)
MaxOcr == 2            \* tokens of the text read from an image (SpecClean)

\* ------------------------------------------------------------- constants
Threads == {1, 2}                       \* Gmail thread ids
Clients == {1, 2}                       \* MongoDBChatMessageHistory instances
Monitor == 0                            \* the email_monitor_loop process
ApiWorkers == {1, 2}                    \* threads serving /process-emails
Procs == {Monitor} \cup ApiWorkers \cup Clients
Roles == {"human", "ai", "system"}      \* BaseMessage.type values stored
Absent == "absent"                      \* a key that is not in a document
NoTime == -1                            \* a timestamp key that is not there
Instants == {0, 1}                      \* readings of datetime.now()

\* metadata keys written by the code
MetaFields == {"subject", "sender_name", "last_updated", "status",
               "last_response", "last_response_time", "screenshot_drive_links"}
EmptyMeta == [f \in MetaFields |-> Absent]

\* the fields / values the store clients of SpecStore pass
StoreFields == {"status", "subject"}
StoreValue(f) == IF f = "status" THEN "Responded" ELSE "X"
ClientRole(c) == IF c = 1 THEN "human" ELSE "ai"

\* ------------------------------------------------------------- variables
VARIABLES
    docs,       \* the conversations collection, in insertion (natural) order
    clock,      \* current reading of datetime.now()
    pc,         \* per process: where it is in its method / handler
    loc,        \* per process: locals of the running method / handler
    appended,   \* per client: the add_message calls it completed, in order
    mail,       \* the mailbox: message id -> thread, sender, UNREAD label
    processed,  \* processed_messages of the running email_monitor_loop
    runs,       \* per message id: process_email calls made for it
    agentRuns,  \* per message id: process_with_agent calls made for it
    sends,      \* per message id: replies send_email_reply delivered
    requests,   \* /process-emails requests begun
    certs,      \* the .pdf files in the certificates directory
    minted,     \* certificate files written so far
    outbox,     \* replies Gmail accepted, with the files attached to each
    snd,        \* per caller: locals of its send_email_reply call
    sheets,     \* the spreadsheet: tab name -> rows, the header first
    logged,     \* per tab: the calls whose row was written to it, in order
    toolCalls,  \* tool handler calls made
    toolRes,    \* what the last tool handler call returned
    txt,        \* one message's text on its way from Gmail to the store
    sharedAgent,\* SHARED_AGENT: 0 is None, n the n-th agent created
    created,    \* create_shared_agent runs
    ga,         \* per caller: locals of its get_shared_agent call
    logcall,    \* the last log_user_details call: its arguments, the rows it wrote
    resp,       \* the JSON body of the last /process-emails response
    svc,        \* gmail_service and system_prompt set or None; the last /health body
    fetch,      \* locals of the running fetch_emails_after_time call
    trace,      \* the tool calls the executor made in the current agent run
    owner,      \* whose message is being handled; per certificate file, whose it is
    stuck       \* the messages whose UNREAD label cannot be removed

sendVars == <<certs, minted, outbox, snd>>
toolVars == <<sheets, logged, toolCalls, toolRes>>
agentVars == <<sharedAgent, created, ga>>
restVars == <<logcall, resp, svc, fetch, trace, owner, stuck>>
notResp == <<sendVars, toolVars, txt, agentVars, logcall, svc, fetch, trace, owner, stuck>>
notSvc == <<sendVars, toolVars, txt, logcall, resp, fetch, trace, owner, stuck>>
notFetch == <<sendVars, toolVars, txt, agentVars, logcall, resp, svc, trace, owner, stuck>>
notTrace == <<sendVars, toolVars, txt, agentVars, logcall, resp, svc, fetch, owner, stuck>>
sideVars == <<sendVars, toolVars, txt, agentVars, restVars>>
vars == <<docs, clock, pc, loc, appended, mail, processed, runs, agentRuns,
          sends, requests, sideVars>>
storeVars == <<docs, clock, appended>>
mailVars == <<mail, processed, runs, agentRuns, sends, requests>>
notSide == <<docs, clock, pc, loc, appended, mailVars>>

\* ============================================================ the store
\* datetime.isoformat(): a timestamp rendered as text
IsoStamps == <<"T0", "T1", "T2", "T3", "T4", "T5", "T6", "T7", "T8", "T9">>
IsoFormat(n) == IsoStamps[n + 1]

\* positions of the documents of thread t
Matching(coll, t) == {i \in 1..Len(coll) : coll[i].thread_id = t}

\* collection.find_one({"thread_id": t}): position of the first match, 0 = None
FindOne(coll, t) ==
    IF Matching(coll, t) = {} THEN 0
    ELSE CHOOSE i \in Matching(coll, t) : \A j \in Matching(coll, t) : i <= j

\* collection.insert_one(doc): no unique index on thread_id exists
InsertOne(coll, doc) == Append(coll, doc)

\* the document add_message inserts for a thread it did not find
ConversationDoc(user_email, t, entry, now) ==
    [thread_id |-> t, user_email |-> user_email, hasChat |-> TRUE,
     chat |-> <<entry>>, metadata |-> EmptyMeta,
     created_at |-> now, last_updated |-> now]

\* the document an upsert creates from its filter and its $set
UpsertDoc(t, meta, now) ==
    [thread_id |-> t, user_email |-> Absent, hasChat |-> FALSE,
     chat |-> <<>>, metadata |-> meta,
     created_at |-> NoTime, last_updated |-> now]

\* update_one(filter, {"$push": {"chat": entry}, "$set": {"last_updated": now}})
PushChat_Overwrite(coll, t, entry, now) ==
    LET i == FindOne(coll, t) IN
    IF i = 0 THEN coll
    ELSE [coll EXCEPT ![i] = [@ EXCEPT !.chat = <<entry>>,
                                       !.hasChat = TRUE,
                                       !.last_updated = now]]
PushChat(coll, t, entry, now) ==
    LET i == FindOne(coll, t) IN
    IF i = 0 THEN coll
    ELSE [coll EXCEPT ![i] = [@ EXCEPT !.chat = Append(@, entry),
                                       !.hasChat = TRUE,
                                       !.last_updated = now]]

\* update_one({"thread_id": t}, {"$set": {"chat": []}}): no upsert
ClearChat_Replace(coll, t) ==
    LET i == FindOne(coll, t) IN
    IF i = 0 THEN coll
    ELSE [coll EXCEPT ![i] = [@ EXCEPT !.chat = <<>>, !.hasChat = TRUE,
                                       !.metadata = EmptyMeta]]
ClearChat(coll, t) ==
    LET i == FindOne(coll, t) IN
    IF i = 0 THEN coll
    ELSE [coll EXCEPT ![i] = [@ EXCEPT !.chat = <<>>, !.hasChat = TRUE]]

\* $set {"metadata.<field>": value} applied to one metadata map
SetField_Clobber(meta, field, value) == [EmptyMeta EXCEPT ![field] = value]
SetField(meta, field, value) == [meta EXCEPT ![field] = value]

\* update_metadata_field: update_one(..., {"$set": {"metadata.f": v,
\* "last_updated": now}}, upsert=True)
UpsertMetadataField(coll, t, field, value, now) ==
    LET i == FindOne(coll, t) IN
    IF i = 0 THEN Append(coll, UpsertDoc(t, SetField(EmptyMeta, field, value), now))
    ELSE [coll EXCEPT ![i] = [@ EXCEPT !.metadata = SetField(@, field, value),
                                       !.last_updated = now]]

\* update_metadata: update_one(..., {"$set": {"metadata": m,
\* "last_updated": now}}, upsert=True)
UpsertMetadata(coll, t, meta, now) ==
    LET i == FindOne(coll, t) IN
    IF i = 0 THEN Append(coll, UpsertDoc(t, meta, now))
    ELSE [coll EXCEPT ![i] = [@ EXCEPT !.metadata = meta,
                                       !.last_updated = now]]

\* entries of a chat array the messages property turns into messages
RECURSIVE KnownRoles(_)
KnownRoles(chat) ==
    IF chat = <<>> THEN <<>>
    ELSE IF Head(chat).role \in Roles
         THEN <<Head(chat)>> \o KnownRoles(Tail(chat))
         ELSE KnownRoles(Tail(chat))

\* the messages property: find_one, [] when there is no document or no chat
Messages(coll, t) ==
    LET i == FindOne(coll, t) IN
    IF i = 0 \/ ~coll[i].hasChat THEN <<>> ELSE KnownRoles(coll[i].chat)


\* ============================================================= the mail
SelfAddress == "admin@programminghub.io"          \* IMPERSONATED_USER
Senders == {"Alice <A@x.com>", "Support <Admin@ProgrammingHub.io>"}

\* IMPERSONATED_USER.lower() in sender.lower()
FromSelf(sender) == sender = "Support <Admin@ProgrammingHub.io>"

\* extract_email_from_sender: parseaddr(sender)[1].lower()
ExtractEmail(sender) ==
    IF sender = "Alice <A@x.com>" THEN "a@x.com" ELSE SelfAddress

\* the Subject header of the messages of a thread
SubjectOf(t) == IF t = 1 THEN "Help" ELSE "Refund"

\* ids of the messages that carry the UNREAD label
Unread(mb) == {i \in 1..Len(mb) : mb[i].unread}

\* messages().list(q='is:unread ...', maxResults=1)['messages'][0]:
\* Gmail lists the newest message first; 0 when the list is empty
HeadUnread(mb) ==
    IF Unread(mb) = {} THEN 0
    ELSE CHOOSE i \in Unread(mb) : \A j \in Unread(mb) : j <= i

\* messages().modify(removeLabelIds=['UNREAD']); ok = FALSE when it raises
MarkRead(mb, m, ok) == IF ok THEN [mb EXCEPT ![m].unread = FALSE] ELSE mb

\* ======================================================= the orchestrator
MaxIterations == 6
\* the same guard two messages later
MaxThreadMessages_Ten == 2 * 5
\* the thread-length guard compares with 8 (813)
MaxThreadMessages == 8
Sentinel == "NO_RESPONSE_NEEDED"
ReplyText == "Your certificate has been reissued."
PaddedSentinel == " NO_RESPONSE_NEEDED\n"
ExceededText == "This conversation has exceeded the maximum number of allowed exchanges. Please start a new conversation or contact support directly for further assistance."
ApologyText == "I'm currently experiencing technical difficulties. Our support team has been notified and will get back to you shortly."
ApologySnippet == "I'm currently experiencing technical difficulties. Our support team has been notified and will get ..."
StoppedText == "Agent stopped due to iteration limit or time limit."
ErrorText == "I encountered an error while processing your email. Please try again or contact our support team directly."
NoText == ""

\* what the model may return as its final answer
ModelAnswers == {ReplyText, Sentinel, PaddedSentinel}
\* names the model may put in a function call: the registered tools and
\* one that is not registered
ToolNames == {"print_order_details", "generate_certificate", "activate_premium",
              "log_user_details", "generate_certificates", "unknown_tool"}

\* str.strip()
Strip(s) == IF s = PaddedSentinel THEN Sentinel ELSE s

\* response[:100] + "..." if len(response) > 100 else response
Snippet(r) == IF r = ApologyText THEN ApologySnippet ELSE r

\* =========================================================== the sheets
\* the tabs of SHEETS_CONFIG the model follows (sheets_service.py 19-47)
SheetNames == {"All-Logs", "Certificate_Issues", "Technical_Issues"}
HeaderRow == [kind |-> "header", call |-> 0]
BlankRow == [kind |-> "blank", call |-> 0]
\* the row_data a logging call builds; call numbers the tool call it is for
DataRow(n) == [kind |-> "data", call |-> n]

\* which Sheets API request of a logging call raises, if any
SheetOutcomes == {"ok", "get_fails", "write_fails", "shift_fails"}

\* values().get(range='A:Z')['values']: the rows down to the last one that
\* is not empty
RECURSIVE Values(_)
Values(rows) ==
    IF rows = <<>> THEN <<>>
    ELSE IF rows[Len(rows)] = BlankRow THEN Values(SubSeq(rows, 1, Len(rows) - 1))
    ELSE rows

\* values().update(range='<sheet>!A<r>', body={'values': [row]}): the cells
\* of row r are overwritten; rows between the last one and r are empty
RECURSIVE UpdateRow(_, _, _)
UpdateRow(rows, r, row) ==
    IF r <= Len(rows) THEN [rows EXCEPT ![r] = row]
    ELSE UpdateRow(Append(rows, BlankRow), r, row)

\* batchUpdate insertRange {startRowIndex: 1, endRowIndex: 2}, shiftDimension
\* ROWS: an empty row is inserted as row 2 and rows 2.. move down by one
InsertRange(rows) ==
    IF Len(rows) < 2 THEN rows
    ELSE <<rows[1], BlankRow>> \o SubSeq(rows, 2, Len(rows))

\* log_to_sheet(sheet_name, row_data) (302-373): the sheet afterwards and
\* the value returned
LogToSheet(rows, row, outcome) ==
    IF outcome = "get_fails" THEN [rows |-> rows, ok |-> FALSE]
    ELSE IF Len(Values(rows)) <= 1
    THEN IF outcome = "write_fails" THEN [rows |-> rows, ok |-> FALSE]
         ELSE [rows |-> Append(Values(rows), row), ok |-> TRUE]
    ELSE IF outcome = "write_fails" THEN [rows |-> rows, ok |-> FALSE]
    ELSE IF outcome = "shift_fails"
         THEN [rows |-> UpdateRow(rows, 2, row), ok |-> FALSE]
         ELSE [rows |-> InsertRange(UpdateRow(rows, 2, row)), ok |-> TRUE]

\* the Technical_Issues write of log_technical_issue (545-568): the row goes
\* to next_row = len(values) + 1
LogTechnicalRow(rows, row, outcome) ==
    IF outcome \in {"get_fails", "write_fails"} THEN [rows |-> rows, ok |-> FALSE]
    ELSE [rows |-> UpdateRow(rows, Len(Values(rows)) + 1, row), ok |-> TRUE]

\* ===================================== log_user_details, the rows written
\* SHEETS_CONFIG (sheets_service.py 19-47): the header of every tab
SheetsConfig ==
    [tab \in {"All-Logs", "Technical_Issues", "Certificate_Issues",
              "Subscription_Issues", "Refund", "Account_Deletion", "Payment_Issues"} |->
        CASE tab = "All-Logs" ->
               <<"Timestamp", "Issue Type", "App Name", "Email", "Initial Message", "Status">>
          [] tab = "Technical_Issues" ->
               <<"Timestamp", "App Name", "Email", "Issue Description", "Device",
                 "OS Version", "App Version", "Screenshot">>
          [] tab = "Certificate_Issues" ->
               <<"Timestamp", "App Name", "Email", "Course", "New Name">>
          [] tab = "Subscription_Issues" ->
               <<"Timestamp", "App Name", "Email", "Order ID", "Status">>
          [] tab = "Refund" ->
               <<"Timestamp", "App Name", "Email", "Order ID", "Status">>
          [] tab = "Account_Deletion" ->
               <<"Timestamp", "App Name", "Email", "Status">>
          [] OTHER ->
               <<"Timestamp", "App Name", "Email", "Country", "Initial Message", "Status">>]

\* x if x else d
OrElse(x, d) == IF x = "" THEN d ELSE x

\* the row a logging function hands to the Sheets API for a tab
RowFor(tab, row) == [sheet |-> tab, row |-> row]

\* the All-Logs row of the category functions: all_logs_data
AllLogsRow(type, a, message) ==
    RowFor("All-Logs", <<"ts", type, a.app, a.email, message, a.status>>)

\* log_certificate_issue (377-408)
LogCertificateIssue(a) ==
    << RowFor("Certificate_Issues", <<"ts", a.app, a.email, a.course, a.new_name>>),
       AllLogsRow("Certificate Issue", a,
                  OrElse(a.message, "Certificate name change requested")) >>

\* log_subscription_issue (410-441)
LogSubscriptionIssue(a) ==
    << RowFor("Subscription_Issues", <<"ts", a.app, a.email, a.order, a.status>>),
       AllLogsRow("Subscription Issue", a,
                  OrElse(a.message, "Subscription activation issue")) >>

\* log_payment_issue (443-475)
LogPaymentIssue(a) ==
    << RowFor("Payment_Issues", <<"ts", a.app, a.email, "Not provided",
                                  OrElse(a.message, "Payment processing issue"),
                                  a.status>>),
       AllLogsRow("Payment Issue", a, OrElse(a.message, "Payment processing issue")) >>

\* log_technical_issue (477-603) for a thread without screenshots
LogTechnicalIssue(a) ==
    << RowFor("Technical_Issues", <<"ts", a.app, a.email, a.message, "Not provided",
                                    "Not provided", "Not provided",
                                    "See screenshots column">>),
       AllLogsRow("Technical Issue", a, a.message) >>

\* log_refund_request (688-719)
LogRefundRequest(a) ==
    << RowFor("Refund", <<"ts", a.app, a.email, a.order, a.status>>),
       AllLogsRow("Refund Request", a, OrElse(a.message, "Customer requested refund")) >>

\* log_account_deletion (721-751)
LogAccountDeletion(a) ==
    << RowFor("Account_Deletion", <<"ts", a.app, a.email, a.status>>),
       AllLogsRow("Account Deletion", a,
                  OrElse(a.message, "Account deletion requested")) >>

\* the rows one log_user_details call writes when every Sheets request
\* succeeds: the dispatch on issue_type (agent_main_with_mongodb.py 334-441)
RowsWritten(issue, message, order, course, email) ==
    LET a == [app |-> "App", email |-> OrElse(email, "Not provided"),
              status |-> "Open",
              message |-> message, order |-> OrElse(order, "Not provided"),
              course |-> OrElse(course, "Not provided"),
              new_name |-> "Not provided"]
    IN CASE issue = "Certificate Issue" -> LogCertificateIssue(a)
         [] issue \in {"Premium Access", "Subscription Issue"} -> LogSubscriptionIssue(a)
         [] issue \in {"Refund Request", "Refund"} -> LogRefundRequest(a)
         [] issue = "Technical Issue" -> LogTechnicalIssue(a)
         [] issue = "Payment Issue" -> LogPaymentIssue(a)
         [] issue = "Account Deletion" -> LogAccountDeletion(a)
         [] issue = "Order Inquiry" -> <<AllLogsRow("Order Inquiry", a, a.message)>>
         [] OTHER -> <<AllLogsRow(issue, a, a.message)>>

\* ======================================================= text cleaning
\* Text is a sequence of tokens: a word, a space, a newline, the characters
\* < > & : and the entity &lt; each stand for themselves; Marker stands for
\* the words EXTRACTED IMAGE CONTENT and Attachment for "(Attachment 1)"
Marker == "EXTRACTED IMAGE CONTENT"
Attachment == "(Attachment 1)"
Space == " "
Newline == "\n"
Tokens == {"a", Space, Newline, "<", ">", "&lt;"}

\* the texts of at most n tokens
RECURSIVE TextsUpTo(_)
TextsUpTo(n) ==
    IF n = 0 THEN {<<>>}
    ELSE LET shorter == TextsUpTo(n - 1) IN
         shorter \cup {Append(t, x) : t \in shorter, x \in Tokens}

\* str.strip(): whitespace removed from both ends
RECURSIVE StripText(_)
StripText(s) ==
    IF s = <<>> THEN s
    ELSE IF Head(s) \in {Space, Newline} THEN StripText(Tail(s))
    ELSE IF s[Len(s)] \in {Space, Newline} THEN StripText(SubSeq(s, 1, Len(s) - 1))
    ELSE s

\* html.unescape
Unescape(s) == [i \in 1..Len(s) |-> IF s[i] = "&lt;" THEN "<" ELSE s[i]]

\* position of the first token x of s at or after position i, 0 if none
FirstAt(s, x, i) ==
    LET hits == {j \in i..Len(s) : s[j] = x} IN
    IF hits = {} THEN 0 ELSE CHOOSE j \in hits : \A k \in hits : j <= k

\* re.sub(r'<[^>]+>', '', s)
RECURSIVE StripTags(_)
StripTags(s) ==
    IF s = <<>> THEN s
    ELSE IF Head(s) # "<" THEN <<Head(s)>> \o StripTags(Tail(s))
    ELSE LET j == FirstAt(s, ">", 2) IN
         IF j = 0 THEN s
         ELSE IF j = 2 THEN <<"<">> \o StripTags(Tail(s))
         ELSE StripTags(SubSeq(s, j + 1, Len(s)))

\* re.sub(r' +', ' ', s)
RECURSIVE CollapseSpaces(_)
CollapseSpaces(s) ==
    IF Len(s) < 2 THEN s
    ELSE IF s[1] = Space /\ s[2] = Space THEN CollapseSpaces(Tail(s))
    ELSE <<Head(s)>> \o CollapseSpaces(Tail(s))

\* re.sub(r'\s+', ' ', s)
RECURSIVE CollapseWhitespace(_)
CollapseWhitespace(s) ==
    IF s = <<>> THEN s
    ELSE IF Head(s) \in {Space, Newline}
    THEN IF Len(s) >= 2 /\ s[2] \in {Space, Newline}
         THEN CollapseWhitespace(Tail(s))
         ELSE <<Space>> \o CollapseWhitespace(Tail(s))
    ELSE <<Head(s)>> \o CollapseWhitespace(Tail(s))

\* s.split('\n')
RECURSIVE SplitLines(_)
SplitLines(s) ==
    LET j == FirstAt(s, Newline, 1) IN
    IF j = 0 THEN <<s>>
    ELSE <<SubSeq(s, 1, j - 1)>> \o SplitLines(SubSeq(s, j + 1, Len(s)))

\* '\n'.join(line for line in lines if line) of the stripped lines
RECURSIVE JoinLines(_)
JoinLines(lines) ==
    IF lines = <<>> THEN <<>>
    ELSE LET line == StripText(Head(lines))
             rest == JoinLines(Tail(lines))
         IN IF line = <<>> THEN rest
            ELSE IF rest = <<>> THEN line
            ELSE line \o <<Newline>> \o rest

\* part occurs in s as consecutive tokens
HasInfix(s, part) ==
    \E i \in 0..(Len(s) - Len(part)) : SubSeq(s, i + 1, i + Len(part)) = part

\* s.replace("EXTRACTED IMAGE CONTENT", "EXTRACTED IMAGE CONTENT:")
RECURSIVE AddColon(_)
AddColon(s) ==
    IF s = <<>> THEN s
    ELSE IF Head(s) = Marker THEN <<Marker, ":">> \o AddColon(Tail(s))
    ELSE <<Head(s)>> \o AddColon(Tail(s))

\* clean_html_tags (205-239)
CleanHtmlTags(text) ==
    IF text = <<>> THEN <<>>
    ELSE LET has_image_content == HasInfix(text, <<Marker>>)
             clean_text == JoinLines(SplitLines(CollapseSpaces(StripTags(Unescape(text)))))
         IN IF has_image_content /\ ~HasInfix(clean_text, <<Marker, ":">>)
                /\ HasInfix(clean_text, <<Marker>>)
            THEN AddColon(clean_text)
            ELSE clean_text

\* the block get_full_email_content writes for the text of one image (381-383)
BlockOf(ocr) == <<Marker, Space, Attachment, ":", Newline>> \o ocr

\* combined_content of get_full_email_content (372-383, 410)
CombinedContent(body, ocr) ==
    LET b == StripText(body) IN
    IF StripText(ocr) = <<>> THEN b
    ELSE (IF b = <<>> THEN b ELSE b \o <<Newline, Newline>>)
         \o BlockOf(ocr) \o <<Newline>>

\* re.findall(r'EXTRACTED IMAGE CONTENT.*?(?=\n\n|\Z)', s, re.DOTALL), joined
\* with blank lines: the text from the first marker to the first blank line
ExtractedBlocks(s) ==
    LET m == FirstAt(s, Marker, 1)
        ends == {j \in m..Len(s) : j < Len(s) /\ s[j] = Newline /\ s[j + 1] = Newline}
        e == IF ends = {} THEN Len(s) + 1 ELSE CHOOSE j \in ends : \A k \in ends : j <= k
    IN IF m = 0 THEN <<>> ELSE SubSeq(s, m, e - 1)

\* the content add_message stores for a human message (mongodb_memory.py 42-59)
StoredContent(content) ==
    IF content = <<>> THEN content
    ELSE LET cleaned == StripText(CollapseWhitespace(StripTags(Unescape(content))))
             blocks == ExtractedBlocks(content)
         IN IF HasInfix(content, <<Marker>>) /\ ~HasInfix(cleaned, <<Marker>>)
                /\ blocks # <<>>
            THEN cleaned \o <<Newline, Newline>> \o blocks
            ELSE cleaned

\* ================================================================= state
NoEntry == [role |-> "human", content |-> [src |-> 0, text |-> NoText]]
IdleLoc == [thread |-> 0, entry |-> NoEntry, found |-> FALSE, ret |-> "idle",
            mail |-> 0, nmsgs |-> 0, isNew |-> FALSE, k |-> 0, iter |-> 0,
            phase |-> "h", output |-> NoText, hasResult |-> FALSE,
            response |-> NoText, failed |-> FALSE]

\* a thread left in the store by earlier runs: four exchanges, answered
OldHuman == [role |-> "human", content |-> [src |-> 0, text |-> "plain"]]
OldAi == [role |-> "ai", content |-> [src |-> 0, text |-> ReplyText]]
PriorDoc ==
    [thread_id |-> 1, user_email |-> Absent, hasChat |-> TRUE,
     chat |-> <<OldHuman, OldAi, OldHuman, OldAi, OldHuman, OldAi, OldHuman, OldAi>>,
     metadata |-> [EmptyMeta EXCEPT !["subject"] = SubjectOf(1),
                                    !["sender_name"] = "Alice <A@x.com>",
                                    !["last_updated"] = IsoFormat(0),
                                    !["status"] = "Responded",
                                    !["last_response"] = ReplyText,
                                    !["last_response_time"] = IsoFormat(0)],
     created_at |-> NoTime, last_updated |-> 0]

\* no message text is under way
NoMessage == [stage |-> "none", body |-> <<>>, ocr |-> <<>>, content |-> <<>>,
              cleaned |-> <<>>, stored |-> <<>>]

\* the threads that may call get_shared_agent first: the /process-emails
\* threads; none is inside it
AgentCallers == ApiWorkers
IdleGet == [stage |-> "idle", made |-> 0, got |-> 0]

\* a history variable that the specification at hand does not follow, and
\* what an action writes to one
NotRecorded == [status |-> "not recorded"]
Record(old, new) == IF old = NotRecorded THEN old ELSE new

\* jsonify(...) of process_emails_endpoint: no emails (116-122), the result
\* of one email (177-184), an error (104-108, 189-193); no request answered
NoEmailsJson ==
    [status |-> "success", emails_processed |-> 0,
     message |-> "No new emails found", timestamp |-> "now"]
ResultJson(found, done, sent, errors) ==
    [status |-> "success", emails_found |-> found, emails_processed |-> done,
     responses_sent |-> sent, errors |-> errors, timestamp |-> "now"]
ErrorJson ==
    [status |-> "error", message |-> "Failed to initialize services",
     timestamp |-> "now"]
NoJson == [status |-> "none"]

\* the module globals of main.py before initialize_services (42-44); no
\* /health request was answered
NoHealth == [gmail |-> FALSE, agent |-> FALSE, system_prompt |-> FALSE,
             answered |-> FALSE]
NoServices == [gmail |-> FALSE, prompt |-> FALSE, health |-> NoHealth]

\* no fetch_emails_after_time call is running
IdleFetch == [stage |-> "idle", markAsRead |-> FALSE, attempt |-> 0, msg |-> 0,
              result |-> "none", emails |-> <<>>]

\* the tools whose description asks for an earlier log_user_details call
\* (agent_main_with_mongodb.py 487-509)
ActionTools == {"generate_certificate", "generate_certificates", "activate_premium"}

\* the tool calls of an agent run, as far as their order matters: whether
\* log_user_details ran, and the action tools that ran before it did;
\* on is FALSE in the specifications that do not follow the calls
NoTrace == [on |-> FALSE, logged |-> FALSE, early |-> {}]
NewTrace == [on |-> TRUE, logged |-> FALSE, early |-> {}]

\* nobody's message is being handled and no file was written for anybody
NoOwner == [cur |-> "none", of |-> [f \in 1..MaxCerts |-> "none"]]

\* log_user_details was not called yet
NoLogCall == [issue |-> "none", message |-> "", order |-> "", course |-> "",
              email |-> "", rows |-> <<>>]

\* no tool handler was called yet
NoResult == [tool |-> "none", raised |-> FALSE, failed |-> FALSE, text |-> NoText]

\* the certificates directory is empty, nothing was sent, nobody is sending,
\* every tab holds its header (initialize_sheets)
IdleSend == [stage |-> "idle", listed |-> {}, attached |-> {}, attempt |-> 0,
             calls |-> 0, result |-> "none"]
InitSide ==
    /\ certs = {}
    /\ minted = 0
    /\ outbox = <<>>
    /\ snd = [w \in ApiWorkers |-> IdleSend]
    /\ sheets = [s \in SheetNames |-> <<HeaderRow>>]
    /\ logged = [s \in SheetNames |-> <<>>]
    /\ toolCalls = 0
    /\ toolRes = NoResult
    /\ sharedAgent = 0
    /\ created = 0
    /\ ga = [w \in AgentCallers |-> IdleGet]
    /\ logcall = NoLogCall
    /\ svc = NoServices
    /\ fetch = IdleFetch
    /\ owner = NoOwner

InitPlain ==
    /\ clock = 0
    /\ pc = [p \in Procs |-> "idle"]
    /\ loc = [p \in Procs |-> IdleLoc]
    /\ appended = [p \in Procs |-> <<>>]
    /\ mail = <<>>
    /\ processed = {}
    /\ runs = [m \in 1..MaxMail |-> 0]
    /\ agentRuns = [m \in 1..MaxMail |-> 0]
    /\ sends = [m \in 1..MaxMail |-> 0]
    /\ requests = 0
    /\ InitSide

\* the specifications that do not follow a history variable leave it off
InitCore == InitPlain /\ resp = NotRecorded /\ trace = NoTrace /\ stuck = {}

InitRest == InitCore /\ txt = NoMessage

\* the store clients start on an empty collection
InitStore == docs = <<>> /\ InitRest

\* a process starts on whatever earlier processes left in the store
InitMail == docs \in {<<>>, <<PriorDoc>>} /\ InitRest

\* time passes between two readings of datetime.now()
Tick ==
    /\ clock + 1 \in Instants
    /\ clock' = clock + 1
    /\ UNCHANGED <<docs, pc, loc, appended>>
    /\ UNCHANGED mailVars
    /\ UNCHANGED sideVars

\* ======================================================= store clients
\* add_message calls begun so far
RECURSIVE SumLen(_, _)
SumLen(f, S) ==
    IF S = {} THEN 0
    ELSE LET x == CHOOSE y \in S : TRUE IN Len(f[x]) + SumLen(f, S \ {x})
TotalAdds == SumLen(appended, Clients) + Cardinality({c \in Clients : pc[c] # "idle"})

\* text of the k-th message a client appends
MsgNames == <<"m1", "m2", "m3", "m4", "m5", "m6">>

\* add_message called by a store client, up to and including find_one
\* (mongodb_memory.py 40-65)
AddMessageFind(c, t, role) ==
    /\ pc[c] = "idle"
    /\ TotalAdds < MaxAdds
    /\ LET entry == [role |-> role,
                     content |-> [src |-> c, text |-> MsgNames[Len(appended[c]) + 1]]] IN
       loc' = [loc EXCEPT ![c].thread = t, ![c].entry = entry,
                          ![c].found = FindOne(docs, t) # 0, ![c].ret = "idle"]
    /\ pc' = [pc EXCEPT ![c] = "add_write"]
    /\ UNCHANGED storeVars
    /\ UNCHANGED mailVars
    /\ UNCHANGED sideVars

\* what add_message writes after find_one: $push when a document was found,
\* insert_one when none was (67-84)
WriteMessage(coll, found, user_email, t, entry, now) ==
    IF found THEN PushChat(coll, t, entry, now)
    ELSE InsertOne(coll, ConversationDoc(user_email, t, entry, now))

\* self.user_email of the history object of process p
UserEmailOf(p) ==
    IF loc[p].mail = 0 THEN "user@x.com" ELSE ExtractEmail(mail[loc[p].mail].sender)

\* add_message, the write that follows find_one; control returns to the caller
AddMessageWrite(p) ==
    /\ pc[p] = "add_write"
    /\ docs' = WriteMessage(docs, loc[p].found, UserEmailOf(p), loc[p].thread,
                            loc[p].entry, clock)
    /\ appended' = [appended EXCEPT ![p] =
                       IF loc[p].ret = "idle"
                       THEN Append(@, <<loc[p].thread, loc[p].entry>>) ELSE @]
    /\ pc' = [pc EXCEPT ![p] = loc[p].ret]
    /\ loc' = [loc EXCEPT ![p] = IF loc[p].ret = "idle" THEN IdleLoc
                                 ELSE [@ EXCEPT !.entry = NoEntry, !.found = FALSE]]
    /\ UNCHANGED clock
    /\ UNCHANGED mailVars
    /\ UNCHANGED sideVars

\* update_metadata_field(field, value) called on any history instance of
\* thread t: one Mongo command (114-125)
UpdateMetadataField(t, field, value) ==
    /\ docs' = UpsertMetadataField(docs, t, field, value, clock)
    /\ UNCHANGED <<clock, pc, loc, appended>>
    /\ UNCHANGED mailVars
    /\ UNCHANGED sideVars

\* update_metadata(metadata) called on any history instance of thread t:
\* one Mongo command (127-138)
UpdateMetadata(t, meta) ==
    /\ docs' = UpsertMetadata(docs, t, meta, clock)
    /\ UNCHANGED <<clock, pc, loc, appended>>
    /\ UNCHANGED mailVars
    /\ UNCHANGED sideVars

StoreMetas == {EmptyMeta, [EmptyMeta EXCEPT !["status"] = "Responded"]}

NextStore ==
    \/ Tick
    \/ \E c \in Clients, t \in Threads : AddMessageFind(c, t, ClientRole(c))
    \/ \E c \in Clients : AddMessageWrite(c)
    \/ \E t \in Threads, f \in StoreFields : UpdateMetadataField(t, f, StoreValue(f))
    \/ \E t \in Threads, m \in StoreMetas : UpdateMetadata(t, m)

SpecStore == InitStore /\ [][NextStore]_vars

\* clear() called on any history instance of thread t: one Mongo command
\* (mongodb_memory.py 86-91)
Clear(t) ==
    /\ docs' = ClearChat(docs, t)
    /\ UNCHANGED <<clock, pc, loc, appended>>
    /\ UNCHANGED mailVars
    /\ UNCHANGED sideVars

\* the store clients, with clear() among their calls
NextClear ==
    \/ Tick
    \/ \E c \in Clients, t \in Threads : AddMessageFind(c, t, ClientRole(c))
    \/ \E c \in Clients : AddMessageWrite(c)
    \/ \E t \in Threads : UpdateMetadataField(t, "status", StoreValue("status"))
    \/ \E t \in Threads : Clear(t)

SpecClear == InitStore /\ [][NextClear]_vars

\* ========================================================= process_email
\* where process_email returns to in process w
Caller(w) == IF w = Monitor THEN "mon_reply" ELSE "api_mark"

\* locals of process_email(email_data) at its first statement (788-805)
EnterProcessEmail(m) ==
    [IdleLoc EXCEPT !.mail = m, !.thread = mail[m].thread]

\* get_mongodb_memory and the thread-length guard (807-820)
PeGuard_NoGuard(w) ==
    /\ pc[w] = "pe_guard"
    /\ loc' = [loc EXCEPT ![w].nmsgs = Len(Messages(docs, loc[w].thread))]
    /\ pc' = [pc EXCEPT ![w] = "pe_isnew"]
    /\ UNCHANGED storeVars
    /\ UNCHANGED mailVars
    /\ UNCHANGED sideVars
PeGuard(w) ==
    /\ pc[w] = "pe_guard"
    /\ LET n == Len(Messages(docs, loc[w].thread)) IN
       IF n > MaxThreadMessages
       THEN /\ loc' = [loc EXCEPT ![w].nmsgs = n, ![w].hasResult = TRUE,
                                  ![w].response = ExceededText]
            /\ pc' = [pc EXCEPT ![w] = Caller(w)]
       ELSE /\ loc' = [loc EXCEPT ![w].nmsgs = n]
            /\ pc' = [pc EXCEPT ![w] = "pe_isnew"]
    /\ UNCHANGED storeVars
    /\ UNCHANGED mailVars
    /\ UNCHANGED sideVars

\* is_new_conversation and agent_input (822-830)
PeIsNew(w) ==
    /\ pc[w] = "pe_isnew"
    /\ loc' = [loc EXCEPT ![w].isNew = (Len(Messages(docs, loc[w].thread)) = 0),
                          ![w].k = 1]
    /\ pc' = [pc EXCEPT ![w] = "pe_update"]
    /\ UNCHANGED storeVars
    /\ UNCHANGED mailVars
    /\ UNCHANGED sideVars

\* the k-th update_metadata_field call of process_email, in program order:
\* 1-4 before the agent runs (833-836), 5-7 after it (867-869)
UpdateCall(w, k) ==
    CASE k = 1 -> <<"subject", SubjectOf(loc[w].thread)>>
      [] k = 2 -> <<"sender_name", mail[loc[w].mail].sender>>
      [] k = 3 -> <<"last_updated", IsoFormat(clock)>>
      [] k = 4 -> <<"status", "In Progress">>
      [] k = 5 -> <<"last_response", Snippet(loc[w].response)>>
      [] k = 6 -> <<"last_response_time", IsoFormat(clock)>>
      [] OTHER -> <<"status", "Responded">>

PeUpdate(w) ==
    /\ pc[w] = "pe_update"
    /\ LET u == UpdateCall(w, loc[w].k) IN
       docs' = UpsertMetadataField(docs, loc[w].thread, u[1], u[2], clock)
    /\ IF loc[w].k = 4
       THEN /\ pc' = [pc EXCEPT ![w] = "pwa"]
            /\ loc' = [loc EXCEPT ![w].k = 0]
       ELSE IF loc[w].k = 7
       THEN /\ pc' = [pc EXCEPT ![w] = Caller(w)]
            /\ loc' = [loc EXCEPT ![w].k = 0, ![w].hasResult = TRUE]
       ELSE /\ pc' = pc
            /\ loc' = [loc EXCEPT ![w].k = @ + 1]
    /\ UNCHANGED <<clock, appended>>
    /\ UNCHANGED mailVars
    /\ UNCHANGED sideVars

\* process_with_agent up to agent_executor.invoke (545-593)
ProcessWithAgent(w) ==
    /\ pc[w] = "pwa"
    /\ agentRuns' = [agentRuns EXCEPT ![loc[w].mail] = @ + 1]
    /\ pc' = [pc EXCEPT ![w] = "ag_iter"]
    /\ loc' = [loc EXCEPT ![w].iter = 0]
    /\ trace' = IF trace.on THEN NewTrace ELSE trace
    /\ UNCHANGED storeVars
    /\ UNCHANGED <<mail, processed, runs, sends, requests>>
    /\ UNCHANGED notTrace

\* AgentExecutor(max_iterations=6): the loop goes on while this holds
ShouldContinue(iterations) == iterations < MaxIterations

\* the executor looked the requested name up in its tool list and ran the
\* tool: the trace afterwards
Called(tr, tool) ==
    IF ~tr.on THEN tr
    ELSE IF tool = "log_user_details" THEN [tr EXCEPT !.logged = TRUE]
    ELSE IF tool \in ActionTools /\ ~tr.logged THEN [tr EXCEPT !.early = @ \cup {tool}]
    ELSE tr

\* the same executor with a rule it does not have: an action tool is run
\* only after log_user_details
MayCall_LogFirst(tr, tool) == tool \in ActionTools => tr.logged
\* AgentExecutor runs whatever registered tool the model names (580-593)
MayCall(tr, tool) == TRUE

\* one iteration in which the model asks for a tool: the tool (or the
\* "not a valid tool" notice) runs and its text goes back to the model
AgentToolCall(w, tool) ==
    /\ pc[w] = "ag_iter"
    /\ ShouldContinue(loc[w].iter)
    /\ MayCall(trace, tool)
    /\ loc' = [loc EXCEPT ![w].iter = @ + 1]
    /\ trace' = Called(trace, tool)
    /\ UNCHANGED <<pc, docs, clock, appended>>
    /\ UNCHANGED mailVars
    /\ UNCHANGED notTrace

\* one iteration in which the model gives its final answer
AgentFinish(w, answer) ==
    /\ pc[w] = "ag_iter"
    /\ ShouldContinue(loc[w].iter)
    /\ loc' = [loc EXCEPT ![w].output = answer, ![w].phase = "h", ![w].iter = 0]
    /\ pc' = [pc EXCEPT ![w] = "save_find"]
    /\ UNCHANGED storeVars
    /\ UNCHANGED mailVars
    /\ UNCHANGED sideVars

\* the model call raises; process_email catches it (861-864)
AgentRaise(w) ==
    /\ pc[w] = "ag_iter"
    /\ ShouldContinue(loc[w].iter)
    /\ loc' = [loc EXCEPT ![w].response = ApologyText, ![w].k = 5, ![w].iter = 0,
                          ![w].failed = TRUE]
    /\ pc' = [pc EXCEPT ![w] = "pe_update"]
    /\ UNCHANGED storeVars
    /\ UNCHANGED mailVars
    /\ UNCHANGED sideVars

\* the loop ends at the cap: the executor (early_stopping_method "force")
\* returns its stopped response as the output, it does not raise
AgentStopped(w) ==
    /\ pc[w] = "ag_iter"
    /\ ~ShouldContinue(loc[w].iter)
    /\ loc' = [loc EXCEPT ![w].output = StoppedText, ![w].phase = "h", ![w].iter = 0]
    /\ pc' = [pc EXCEPT ![w] = "save_find"]
    /\ UNCHANGED storeVars
    /\ UNCHANGED mailVars
    /\ UNCHANGED sideVars

\* the message save_context hands to add_message: the input, then the output
SavedEntry(w) ==
    IF loc[w].phase = "h"
    THEN [role |-> "human",
          content |-> [src |-> loc[w].mail,
                       text |-> IF loc[w].isNew THEN "prefixed" ELSE "plain"]]
    ELSE [role |-> "ai", content |-> [src |-> loc[w].mail, text |-> loc[w].output]]

\* memory.save_context at the end of invoke: add_message for the human
\* input, then for the AI output; this is the find_one of either call
SaveContextFind(w) ==
    /\ pc[w] = "save_find"
    /\ loc' = [loc EXCEPT ![w].entry = SavedEntry(w),
                          ![w].found = FindOne(docs, loc[w].thread) # 0,
                          ![w].ret = IF loc[w].phase = "h" THEN "save_find"
                                     ELSE "pe_check",
                          ![w].phase = "a"]
    /\ pc' = [pc EXCEPT ![w] = "add_write"]
    /\ UNCHANGED storeVars
    /\ UNCHANGED mailVars
    /\ UNCHANGED sideVars

\* the sentinel test (841-847)
IsSentinel_Never(response) == FALSE
IsSentinel(response) == Strip(response) = Sentinel

\* the agent's answer is the sentinel: status 'Ignored', return None
PeIgnored(w) ==
    /\ pc[w] = "pe_check"
    /\ IsSentinel(loc[w].output)
    /\ docs' = UpsertMetadataField(docs, loc[w].thread, "status", "Ignored", clock)
    /\ loc' = [loc EXCEPT ![w].response = loc[w].output, ![w].hasResult = FALSE]
    /\ pc' = [pc EXCEPT ![w] = Caller(w)]
    /\ UNCHANGED <<clock, appended>>
    /\ UNCHANGED mailVars
    /\ UNCHANGED sideVars

\* any other answer becomes the response (849-859)
PeAnswer(w) ==
    /\ pc[w] = "pe_check"
    /\ ~IsSentinel(loc[w].output)
    /\ loc' = [loc EXCEPT ![w].response = loc[w].output, ![w].k = 5]
    /\ pc' = [pc EXCEPT ![w] = "pe_update"]
    /\ UNCHANGED storeVars
    /\ UNCHANGED mailVars
    /\ UNCHANGED sideVars

\* the steps of one process_email call in process w
ProcessEmailStep(w) ==
    \/ PeGuard(w)
    \/ PeIsNew(w)
    \/ PeUpdate(w)
    \/ ProcessWithAgent(w)
    \/ \E tool \in ToolNames : AgentToolCall(w, tool)
    \/ \E a \in ModelAnswers : AgentFinish(w, a)
    \/ AgentRaise(w)
    \/ AgentStopped(w)
    \/ SaveContextFind(w)
    \/ AddMessageWrite(w)
    \/ PeIgnored(w)
    \/ PeAnswer(w)

\* a message arrives in the mailbox, unread
Arrive(t, sender) ==
    /\ Len(mail) < MaxMail
    /\ mail' = Append(mail, [thread |-> t, sender |-> sender, unread |-> TRUE])
    /\ UNCHANGED <<docs, clock, pc, loc, appended, processed, runs, agentRuns,
                   sends, requests>>
    /\ UNCHANGED sideVars

\* outcomes of send_email_reply: delivered, or the error it re-raises
SendOutcomes == {"sent", "raised"}

\* ==================================================== email_monitor_loop
\* email['id'] not in processed_messages fails (946)
AlreadyProcessed_Never(m, seen) == FALSE
AlreadyProcessed(m, seen) == m \in seen

\* value of metadata.screenshot_drive_links: the list of the links
\* get_full_email_content made for the images of message m, and []
LinkNames == <<"[drive:1]", "[drive:2]", "[drive:3]", "[drive:4]">>
LinksOf(m) == LinkNames[m]
EmptyLinks == "[]"

\* get_full_email_content (293-414) for message m: each image part was
\* uploaded and the links were stored in the thread's metadata (387-408)
StoreLinks(coll, m, images) ==
    IF images
    THEN UpsertMetadataField(coll, mail[m].thread, "screenshot_drive_links",
                             LinksOf(m), clock)
    ELSE coll

\* the handler of the outer try of process_email (889-908)
OuterExcept_Silent(l) ==
    [l EXCEPT !.response = ErrorText, !.hasResult = FALSE, !.failed = TRUE,
              !.k = 0, !.entry = NoEntry, !.found = FALSE]
OuterExcept(l) ==
    [l EXCEPT !.response = ErrorText, !.hasResult = TRUE, !.failed = TRUE,
              !.k = 0, !.entry = NoEntry, !.found = FALSE]

\* one cycle up to the call of process_email: fetch_emails_after_time with
\* mark_as_read=True (442-569), the processed_messages filter (944-958).
\* contentOk: get_full_email_content returned text, not None; with None,
\* len(content) raises in process_email (802) and the outer handler answers
FetchCycle(fetchOk, markOk, contentOk, images) ==
    /\ pc[Monitor] = "idle"
    /\ LET h == HeadUnread(mail) IN
       IF ~fetchOk \/ h = 0
       THEN UNCHANGED <<mail, processed, runs, pc, loc, docs>>
       ELSE /\ mail' = MarkRead(mail, h, markOk)
            /\ docs' = IF FromSelf(mail[h].sender) THEN docs
                       ELSE StoreLinks(docs, h, contentOk /\ images)
            /\ IF FromSelf(mail[h].sender) \/ AlreadyProcessed(h, processed)
               THEN UNCHANGED <<processed, runs, pc, loc>>
               ELSE /\ processed' = processed \cup {h}
                    /\ runs' = [runs EXCEPT ![h] = @ + 1]
                    /\ IF contentOk
                       THEN /\ loc' = [loc EXCEPT ![Monitor] = EnterProcessEmail(h)]
                            /\ pc' = [pc EXCEPT ![Monitor] = "pe_guard"]
                       ELSE /\ loc' = [loc EXCEPT ![Monitor] =
                                          OuterExcept(EnterProcessEmail(h))]
                            /\ pc' = [pc EXCEPT ![Monitor] = Caller(Monitor)]
    /\ UNCHANGED <<clock, appended>>
    /\ UNCHANGED <<agentRuns, sends, requests>>
    /\ UNCHANGED sideVars

\* a cycle whose message has readable text and no image
MonitorFetch(fetchOk, markOk) == FetchCycle(fetchOk, markOk, TRUE, FALSE)

\* the rest of the cycle: send_email_reply when process_email returned a
\* result (960-978), then sleep
MonitorReply(outcome) ==
    /\ pc[Monitor] = "mon_reply"
    /\ sends' = IF loc[Monitor].hasResult /\ outcome = "sent"
                THEN [sends EXCEPT ![loc[Monitor].mail] = @ + 1] ELSE sends
    /\ pc' = [pc EXCEPT ![Monitor] = "idle"]
    /\ loc' = [loc EXCEPT ![Monitor] = IdleLoc]
    /\ UNCHANGED storeVars
    /\ UNCHANGED <<mail, processed, runs, agentRuns, requests>>
    /\ UNCHANGED sideVars

NextMonitor ==
    \/ \E t \in Threads, s \in Senders : Arrive(t, s)
    \/ \E f \in BOOLEAN, ok \in BOOLEAN : MonitorFetch(f, ok)
    \/ ProcessEmailStep(Monitor)
    \/ \E o \in SendOutcomes : MonitorReply(o)

SpecMonitor == InitMail /\ [][NextMonitor]_vars

\* ======================================================= /process-emails
\* a request up to the call of process_email: fetch_emails_after_time with
\* mark_as_read=False, max_results=1 (main.py 101-135)
ApiFetch(w, fetchOk) ==
    /\ pc[w] = "idle"
    /\ LET h == HeadUnread(mail) IN
       IF ~fetchOk \/ h = 0 \/ FromSelf(mail[h].sender)
       THEN /\ UNCHANGED <<runs, pc, loc>>
            /\ resp' = Record(resp, NoEmailsJson)
       ELSE /\ runs' = [runs EXCEPT ![h] = @ + 1]
            /\ loc' = [loc EXCEPT ![w] = EnterProcessEmail(h)]
            /\ pc' = [pc EXCEPT ![w] = "pe_guard"]
            /\ resp' = resp
    /\ UNCHANGED storeVars
    /\ UNCHANGED <<mail, processed, agentRuns, sends>>
    /\ UNCHANGED notResp

\* one of the requests the specification counts
ApiRequest(w, fetchOk) ==
    /\ requests < MaxRequests
    /\ requests' = requests + 1
    /\ ApiFetch(w, fetchOk)

\* one of the requests of a client that never stops asking
ApiRepeat(w, fetchOk) ==
    /\ UNCHANGED requests
    /\ ApiFetch(w, fetchOk)

\* mark_message_as_read after process_email returned (main.py 137-141)
ApiMark(w, markOk) ==
    /\ pc[w] = "api_mark"
    /\ mail' = MarkRead(mail, loc[w].mail, markOk)
    /\ IF loc[w].hasResult
       THEN /\ pc' = [pc EXCEPT ![w] = "api_send"]
            /\ loc' = loc
            /\ resp' = resp
       ELSE /\ pc' = [pc EXCEPT ![w] = "idle"]
            /\ loc' = [loc EXCEPT ![w] = IdleLoc]
            /\ resp' = Record(resp, ResultJson(1, 1, 0, 0))
    /\ UNCHANGED storeVars
    /\ UNCHANGED <<processed, runs, agentRuns, sends, requests>>
    /\ UNCHANGED notResp

\* send_email_reply and the JSON response (main.py 143-185)
ApiSend(w, outcome) ==
    /\ pc[w] = "api_send"
    /\ sends' = IF outcome = "sent" THEN [sends EXCEPT ![loc[w].mail] = @ + 1]
                ELSE sends
    /\ pc' = [pc EXCEPT ![w] = "idle"]
    /\ loc' = [loc EXCEPT ![w] = IdleLoc]
    /\ resp' = Record(resp, IF outcome = "sent" THEN ResultJson(1, 1, 1, 0)
                             ELSE ResultJson(1, 1, 0, 1))
    /\ UNCHANGED storeVars
    /\ UNCHANGED <<mail, processed, runs, agentRuns, requests>>
    /\ UNCHANGED notResp

NextApi ==
    \/ \E t \in Threads, s \in Senders : Arrive(t, s)
    \/ \E w \in ApiWorkers, f \in BOOLEAN : ApiRequest(w, f)
    \/ \E w \in ApiWorkers : ProcessEmailStep(w)
    \/ \E w \in ApiWorkers, ok \in BOOLEAN : ApiMark(w, ok)
    \/ \E w \in ApiWorkers, o \in SendOutcomes : ApiSend(w, o)

SpecApi == InitMail /\ [][NextApi]_vars

\* a request whose initialize_services() returns False: the Gmail
\* connection test failed (main.py 103-108, 58-60)
ApiInitFails(w) ==
    /\ pc[w] = "idle"
    /\ requests < MaxRequests
    /\ requests' = requests + 1
    /\ resp' = Record(resp, ErrorJson)
    /\ UNCHANGED <<docs, clock, pc, loc, appended>>
    /\ UNCHANGED <<mail, processed, runs, agentRuns, sends>>
    /\ UNCHANGED notResp

\* requests served one after the other, their responses followed
InitEndpoint ==
    /\ docs \in {<<>>, <<PriorDoc>>}
    /\ InitPlain
    /\ txt = NoMessage
    /\ resp = NoJson
    /\ trace = NoTrace
    /\ stuck = {}

NextEndpoint ==
    \/ \E t \in Threads, s \in Senders : Arrive(t, s)
    \/ \E f \in BOOLEAN : ApiRequest(1, f)
    \/ ApiInitFails(1)
    \/ ProcessEmailStep(1)
    \/ \E ok \in BOOLEAN : ApiMark(1, ok)
    \/ \E o \in SendOutcomes : ApiSend(1, o)

SpecEndpoint == InitEndpoint /\ [][NextEndpoint]_vars

\* /process-emails asked again and again, the requests served one after
\* the other, every mark_message_as_read call succeeding
NextRepeat ==
    \/ \E t \in Threads, s \in Senders : Arrive(t, s)
    \/ \E f \in BOOLEAN : ApiRepeat(1, f)
    \/ ProcessEmailStep(1)
    \/ ApiMark(1, TRUE)
    \/ \E o \in SendOutcomes : ApiSend(1, o)

\* the client keeps asking and a request that can get its message does;
\* a request that began runs to its response
FairRepeat ==
    /\ WF_vars(\E f \in BOOLEAN : ApiRepeat(1, f))
    /\ WF_vars(ProcessEmailStep(1))
    /\ WF_vars(ApiMark(1, TRUE))
    /\ WF_vars(\E o \in SendOutcomes : ApiSend(1, o))

SpecRepeat == InitStore /\ [][NextRepeat]_vars /\ FairRepeat

\* =========================================== process_email, failure paths
\* an exception inside the outer try and outside the inner one:
\* get_mongodb_memory returned None (808-810), or a read or write of the
\* thread store raised (813, 823, 833-836, 867-869)
PeRaises(w) ==
    /\ pc[w] \in {"pe_guard", "pe_isnew", "pe_update"}
    /\ loc' = [loc EXCEPT ![w] = OuterExcept(@)]
    /\ pc' = [pc EXCEPT ![w] = Caller(w)]
    /\ UNCHANGED storeVars
    /\ UNCHANGED mailVars
    /\ UNCHANGED sideVars

\* an exception inside the inner try (839-864) that is not the model call's:
\* get_shared_agent or the history print of process_with_agent, an
\* add_message of save_context, the 'Ignored' update of the sentinel branch
PeAgentPathRaises(w) ==
    /\ \/ pc[w] \in {"pwa", "save_find"}
       \/ pc[w] = "add_write" /\ loc[w].ret # "idle"
       \/ pc[w] = "pe_check" /\ IsSentinel(loc[w].output)
    /\ loc' = [loc EXCEPT ![w].response = ApologyText, ![w].k = 5,
                          ![w].failed = TRUE, ![w].entry = NoEntry,
                          ![w].found = FALSE, ![w].phase = "h"]
    /\ pc' = [pc EXCEPT ![w] = "pe_update"]
    /\ UNCHANGED storeVars
    /\ UNCHANGED mailVars
    /\ UNCHANGED sideVars

\* cleanup_drive_files(thread_id) (sheets_service.py 640-686): the files of
\* the stored links are deleted and the list is set to []
CleanupDriveFiles(t) ==
    /\ LET i == FindOne(docs, t) IN
       IF i = 0 \/ docs[i].metadata["screenshot_drive_links"] \in {Absent, EmptyLinks}
       THEN docs' = docs
       ELSE docs' = [docs EXCEPT ![i].metadata["screenshot_drive_links"] = EmptyLinks]
    /\ UNCHANGED <<clock, pc, loc, appended>>
    /\ UNCHANGED mailVars
    /\ UNCHANGED sideVars

\* a thread left by earlier runs with one exchange and the link of a
\* screenshot its first message carried
ShotDoc ==
    [thread_id |-> 2, user_email |-> Absent, hasChat |-> TRUE,
     chat |-> <<OldHuman, OldAi>>,
     metadata |-> [EmptyMeta EXCEPT !["screenshot_drive_links"] = "[drive:0]",
                                    !["subject"] = SubjectOf(2),
                                    !["sender_name"] = "Alice <A@x.com>",
                                    !["last_updated"] = IsoFormat(0),
                                    !["status"] = "Responded",
                                    !["last_response"] = ReplyText,
                                    !["last_response_time"] = IsoFormat(0)],
     created_at |-> NoTime, last_updated |-> 0]

\* a process that starts on a store holding that thread
InitShots == docs = <<ShotDoc>> /\ InitRest

\* a message arrives, while fewer than MaxInbound have
Inbound(t, sender) == Len(mail) < MaxInbound /\ Arrive(t, sender)

\* the monitor loop with every failure of process_email
NextProcess ==
    \/ \E t \in Threads, s \in Senders : Inbound(t, s)
    \/ \E f \in BOOLEAN, ok \in BOOLEAN, c \in BOOLEAN : FetchCycle(f, ok, c, FALSE)
    \/ ProcessEmailStep(Monitor)
    \/ PeRaises(Monitor)
    \/ PeAgentPathRaises(Monitor)
    \/ \E o \in SendOutcomes : MonitorReply(o)

SpecProcess == InitMail /\ [][NextProcess]_vars

\* the monitor loop with the tool calls of each agent run followed
InitOrder ==
    /\ docs = <<>>
    /\ InitPlain
    /\ txt = NoMessage
    /\ resp = NotRecorded
    /\ trace = NewTrace
    /\ stuck = {}

NextOrder ==
    \/ \E t \in Threads, s \in Senders : Inbound(t, s)
    \/ \E f \in BOOLEAN, ok \in BOOLEAN : MonitorFetch(f, ok)
    \/ ProcessEmailStep(Monitor)
    \/ \E o \in SendOutcomes : MonitorReply(o)

SpecOrder == InitOrder /\ [][NextOrder]_vars

\* the monitor loop polling for ever. mark_message_as_read (421-434)
\* catches the exception of messages().modify and returns False; for the
\* messages of stuck it does so at every call
InitPoll ==
    /\ docs = <<>>
    /\ InitPlain
    /\ txt = NoMessage
    /\ resp = NotRecorded
    /\ trace = NoTrace
    /\ stuck \in SUBSET (1..MaxMail)

\* one cycle of the loop; the newest unread message is marked unless stuck
PollCycle(fetchOk) == MonitorFetch(fetchOk, HeadUnread(mail) \notin stuck)

NextPoll ==
    \/ \E t \in Threads, s \in Senders : Arrive(t, s)
    \/ \E f \in BOOLEAN : PollCycle(f)
    \/ ProcessEmailStep(Monitor)
    \/ \E o \in SendOutcomes : MonitorReply(o)

\* the loop runs a cycle every 30 seconds (983-985) and a cycle that can
\* get its message does; a process_email call and the reply run to their end
FairPoll ==
    /\ WF_vars(\E f \in BOOLEAN : PollCycle(f))
    /\ WF_vars(ProcessEmailStep(Monitor))
    /\ WF_vars(\E o \in SendOutcomes : MonitorReply(o))

SpecPoll == InitPoll /\ [][NextPoll]_vars /\ FairPoll

\* the monitor loop on messages with and without images, and the cleanup
NextShots ==
    \/ \E t \in Threads, s \in Senders : Arrive(t, s)
    \/ \E f \in BOOLEAN, ok \in BOOLEAN, i \in BOOLEAN : FetchCycle(f, ok, TRUE, i)
    \/ ProcessEmailStep(Monitor)
    \/ \E o \in SendOutcomes : MonitorReply(o)
    \/ \E t \in Threads : CleanupDriveFiles(t)

SpecShots == InitShots /\ [][NextShots]_vars

\* ============================== fetch_emails_after_time, call by call
\* outcomes of one Gmail request: it returns, or raises an exception of
\* RETRY_EXCEPTIONS (network, SSL, timeout), or raises another one
RequestOutcomes == {"ok", "transient", "fatal"}

\* the function is called through its tenacity decorator (437-442): this is
\* attempt 1 of at most stop_after_attempt(3)
FetchBegin(markAsRead) ==
    /\ fetch.stage = "idle"
    /\ fetch' = [IdleFetch EXCEPT !.stage = "list", !.markAsRead = markAsRead,
                                  !.attempt = 1]
    /\ UNCHANGED <<notSide, notFetch>>

\* messages().list(q='is:unread after:...', maxResults=1) (472-492): an
\* exception of any kind is caught at 490-492 and [] is returned, so the
\* decorator sees a normal return; no message found returns [] as well
FetchList(outcome) ==
    /\ fetch.stage = "list"
    /\ fetch' = IF outcome = "ok" /\ HeadUnread(mail) # 0
                THEN [fetch EXCEPT !.stage = "get", !.msg = HeadUnread(mail)]
                ELSE [fetch EXCEPT !.stage = "idle", !.result = "returned"]
    /\ UNCHANGED <<notSide, notFetch>>

\* messages().get(id, format='full') and the rest of the inner try
\* (497-562): an exception of any kind is caught at 561-562 and the list
\* gathered so far, which is empty, is returned (564)
FetchGet(outcome, markOk) ==
    /\ fetch.stage = "get"
    /\ LET m == fetch.msg IN
       IF outcome = "ok"
       THEN /\ mail' = IF fetch.markAsRead THEN MarkRead(mail, m, markOk) ELSE mail
            /\ fetch' = [fetch EXCEPT !.stage = "idle", !.result = "returned",
                                      !.emails = IF FromSelf(mail[m].sender)
                                                 THEN <<>> ELSE <<m>>]
       ELSE /\ mail' = mail
            /\ fetch' = [fetch EXCEPT !.stage = "idle", !.result = "returned"]
    /\ UNCHANGED <<docs, clock, pc, loc, appended>>
    /\ UNCHANGED <<processed, runs, agentRuns, sends, requests>>
    /\ UNCHANGED notFetch

NextFetch ==
    \/ \E t \in Threads, s \in Senders : Arrive(t, s)
    \/ \E m \in BOOLEAN : FetchBegin(m)
    \/ \E o \in RequestOutcomes : FetchList(o)
    \/ \E o \in RequestOutcomes, ok \in BOOLEAN : FetchGet(o, ok)

SpecFetch == InitStore /\ [][NextFetch]_vars

\* ================================================ send_email_reply
\* stop_after_attempt(3) of the tenacity decorator (571-575)
StopAfterAttempt == 3

\* callers of send_email_reply: the threads that serve /process-emails
SendsBegun == Len(outbox) + Cardinality({w \in ApiWorkers : snd[w].stage # "idle"})

\* generate_certificate / generate_certificates wrote a file: status 200 and
\* open(filename, 'wb') succeeded (agent_main_with_mongodb.py 138-145)
WriteCertificate ==
    /\ minted < MaxCerts
    /\ minted' = minted + 1
    /\ certs' = certs \cup {minted + 1}
    /\ UNCHANGED <<outbox, snd>>
    /\ UNCHANGED <<notSide, toolVars, txt, agentVars, restVars>>

\* what tenacity does with an exception of RETRY_EXCEPTIONS raised by the
\* body: call the body again, or give up after the third attempt
AfterRetryable(s) ==
    IF s.attempt < StopAfterAttempt
    THEN [s EXCEPT !.stage = "list", !.attempt = @ + 1, !.listed = {},
                   !.attached = {}]
    ELSE [IdleSend EXCEPT !.result = "raised"]

\* send_email_reply is called: clean_email_address (578-583); a recipient
\* that does not validate makes it return False
SendBegin(w, valid) ==
    /\ snd[w].stage = "idle"
    /\ SendsBegun < MaxSends
    /\ snd' = [snd EXCEPT ![w] =
                  IF valid THEN [IdleSend EXCEPT !.stage = "list", !.attempt = 1]
                  ELSE [IdleSend EXCEPT !.result = "refused"]]
    /\ UNCHANGED <<certs, minted, outbox>>
    /\ UNCHANGED <<notSide, toolVars, txt, agentVars, restVars>>

\* os.listdir('certificates') (624-629); an OSError it raises is one of
\* RETRY_EXCEPTIONS (socket.error is OSError) and leaves through 700-703
SendList(w, listOk) ==
    /\ snd[w].stage = "list"
    /\ snd' = [snd EXCEPT ![w] =
                  IF listOk THEN [@ EXCEPT !.stage = "attach", !.listed = certs]
                  ELSE AfterRetryable(@)]
    /\ UNCHANGED <<certs, minted, outbox>>
    /\ UNCHANGED <<notSide, toolVars, txt, agentVars, restVars>>

\* the attach loop (631-648): a file whose open() raises is logged and left out
SendAttach(w, readable) ==
    /\ snd[w].stage = "attach"
    /\ snd' = [snd EXCEPT ![w].stage = "call",
                          ![w].attached = snd[w].listed \cap certs \cap readable]
    /\ UNCHANGED <<certs, minted, outbox>>
    /\ UNCHANGED <<notSide, toolVars, txt, agentVars, restVars>>

\* one messages().send(...).execute() made by send_with_retry (675-682).
\* gcp_retry.Retry repeats the call on an exception of RETRY_EXCEPTIONS until
\* its deadline (120 s by default) is over, then raises RetryError, which
\* is not one of RETRY_EXCEPTIONS; any other exception leaves at once
SendCall(w, outcome, deadlineOver) ==
    /\ snd[w].stage = "call"
    /\ snd[w].calls < MaxSendCalls
    /\ LET s == [snd[w] EXCEPT !.calls = @ + 1] IN
       CASE outcome = "ok" ->
              /\ outbox' = Append(outbox, [listed |-> s.listed,
                                           files |-> s.attached])
              /\ snd' = [snd EXCEPT ![w] = [s EXCEPT !.stage = "cleanup"]]
         [] outcome = "transient" /\ ~deadlineOver /\ s.calls < MaxSendCalls ->
              /\ outbox' = outbox
              /\ snd' = [snd EXCEPT ![w] = s]
         [] OTHER ->
              /\ outbox' = outbox
              /\ snd' = [snd EXCEPT ![w] = [IdleSend EXCEPT !.result = "raised",
                                                            !.calls = s.calls]]
    /\ UNCHANGED <<certs, minted>>
    /\ UNCHANGED <<notSide, toolVars, txt, agentVars, restVars>>

\* the cleanup loop after the send (685-698): os.remove of every listed
\* file; one that raises is logged and the file stays
SendCleanup(w, removable) ==
    /\ snd[w].stage = "cleanup"
    /\ certs' = certs \ (snd[w].listed \cap removable)
    /\ snd' = [snd EXCEPT ![w] = [IdleSend EXCEPT !.result = "sent",
                                                   !.attached = snd[w].attached]]
    /\ UNCHANGED <<minted, outbox>>
    /\ UNCHANGED <<notSide, toolVars, txt, agentVars, restVars>>

CertFiles == 1..MaxCerts
CallOutcomes == {"ok", "transient", "fatal"}

NextSend ==
    \/ WriteCertificate
    \/ \E w \in ApiWorkers, v \in BOOLEAN : SendBegin(w, v)
    \/ \E w \in ApiWorkers, ok \in BOOLEAN : SendList(w, ok)
    \/ \E w \in ApiWorkers, r \in SUBSET CertFiles : SendAttach(w, r)
    \/ \E w \in ApiWorkers, o \in CallOutcomes, d \in BOOLEAN : SendCall(w, o, d)
    \/ \E w \in ApiWorkers, r \in SUBSET CertFiles : SendCleanup(w, r)

SpecSend == InitStore /\ [][NextSend]_vars

\* ------------------------------------------ certificates and recipients
\* the monitor loop, one message after the other, seen from the
\* certificates directory: whose message is being handled (owner.cur), for
\* whose message each file was written (owner.of), and to whom each reply
\* went (the to of an outbox entry)
Customers == {"a@x.com", "b@y.com"}
notOwner == <<notSide, snd, toolVars, txt, agentVars, logcall, resp, svc, fetch, trace, stuck>>

\* process_email is called for a message of sender (960-964)
HandleMessage(sender) ==
    /\ owner.cur = "none"
    /\ owner' = [owner EXCEPT !.cur = sender]
    /\ UNCHANGED <<certs, minted, outbox>>
    /\ UNCHANGED notOwner

\* the agent run for that message calls generate_certificate, which writes
\* a file into the shared directory (agent_main_with_mongodb.py 138-145)
CertificateFor ==
    /\ owner.cur # "none"
    /\ minted < MaxCerts
    /\ minted' = minted + 1
    /\ certs' = certs \cup {minted + 1}
    /\ owner' = [owner EXCEPT !.of[minted + 1] = owner.cur]
    /\ UNCHANGED outbox
    /\ UNCHANGED notOwner

\* process_email returned None, the answer was the sentinel: no reply is
\* sent (843-847, 966-986) and the directory is left as it is
NoReply ==
    /\ owner.cur # "none"
    /\ owner' = [owner EXCEPT !.cur = "none"]
    /\ UNCHANGED <<certs, minted, outbox>>
    /\ UNCHANGED notOwner

\* send_email_reply(to=result['email'], ...) as a whole, for the answer or
\* the apology: a refused address returns False before anything is listed;
\* otherwise every .pdf of the directory is attached (a file that cannot be
\* opened is left out), and after a successful send the listed files are
\* removed (one whose os.remove raises stays); a send that raised leaves
\* the directory as it is
ReplyTo(valid, readable, outcome, removable) ==
    /\ owner.cur # "none"
    /\ Len(outbox) < MaxSends
    /\ IF valid /\ outcome = "sent"
       THEN /\ outbox' = Append(outbox, [to |-> owner.cur, listed |-> certs,
                                         files |-> certs \cap readable])
            /\ certs' = certs \ removable
       ELSE UNCHANGED <<certs, outbox>>
    /\ owner' = [owner EXCEPT !.cur = "none"]
    /\ UNCHANGED minted
    /\ UNCHANGED notOwner

NextCerts ==
    \/ \E s \in Customers : HandleMessage(s)
    \/ CertificateFor
    \/ NoReply
    \/ \E v \in BOOLEAN, r \in SUBSET CertFiles, o \in SendOutcomes,
          d \in SUBSET CertFiles : ReplyTo(v, r, o, d)

SpecCerts == InitStore /\ [][NextCerts]_vars

\* ============================================================ the tools
\* what the handlers return, by the words the text starts with
OrderText == "I've retrieved the order details"
CertOkText == "Certificate generation successful."
CertFailText == "Certificate generation failed"
PartialText == "Partial success."
NoCoursesText == "No courses specified for certificate generation."
PremiumOkText == "Premium access has been successfully activated"
PremiumFailText == "Premium activation failed"
LoggedText == "User details have been logged successfully."

\* a handler returned text / an exception left the handler
Returned(tool, failed, text) ==
    [tool |-> tool, raised |-> FALSE, failed |-> failed, text |-> text]
Raised(tool) == [tool |-> tool, raised |-> TRUE, failed |-> TRUE, text |-> NoText]

\* a tool call leaves the store, the mail and the senders alone
ToolFrame ==
    /\ toolCalls < MaxToolCalls
    /\ toolCalls' = toolCalls + 1
    /\ UNCHANGED <<outbox, snd, txt, agentVars, restVars>>
    /\ UNCHANGED notSide

\* print_order_details (78-92)
PrintOrderDetails ==
    /\ ToolFrame
    /\ toolRes' = Returned("print_order_details", FALSE, OrderText)
    /\ UNCHANGED <<certs, minted, sheets, logged>>

\* one certificate request: requests.post, the status check, the file write
CertOutcomes == {"ok", "status_500", "post_raises", "open_raises"}

\* generate_certificate (94-153)
GenerateCertificate(outcome) ==
    /\ ToolFrame
    /\ IF outcome = "ok"
       THEN /\ minted < MaxCerts
            /\ minted' = minted + 1
            /\ certs' = certs \cup {minted + 1}
            /\ toolRes' = Returned("generate_certificate", FALSE, CertOkText)
       ELSE /\ UNCHANGED <<certs, minted>>
            /\ toolRes' = Returned("generate_certificate", TRUE, CertFailText)
    /\ UNCHANGED <<sheets, logged>>

\* generate_certificates (155-242) for no course or for two courses:
\* os.makedirs is outside the try, the loop body inside it
GenerateCertificates(courses, mkdirOk, o1, o2) ==
    /\ ToolFrame
    /\ LET written == Cardinality({i \in {1, 2} : <<o1, o2>>[i] = "ok"}) IN
       IF courses = 0
       THEN /\ UNCHANGED <<certs, minted>>
            /\ toolRes' = Returned("generate_certificates", FALSE, NoCoursesText)
       ELSE IF ~mkdirOk
       THEN /\ UNCHANGED <<certs, minted>>
            /\ toolRes' = Raised("generate_certificates")
       ELSE /\ minted + written <= MaxCerts
            /\ minted' = minted + written
            /\ certs' = certs \cup ((minted + 1)..(minted + written))
            /\ toolRes' = Returned("generate_certificates", written < 2,
                              IF written = 2 THEN CertOkText
                              ELSE IF written = 1 THEN PartialText
                              ELSE CertFailText)
    /\ UNCHANGED <<sheets, logged>>

\* the activation request: requests.post, response.json(), the status check
PremiumOutcomes == {"ok", "status_400", "post_raises", "json_raises"}

\* activate_premium (244-296)
ActivatePremium(outcome) ==
    /\ ToolFrame
    /\ toolRes' = IF outcome = "ok"
                  THEN Returned("activate_premium", FALSE, PremiumOkText)
                  ELSE Returned("activate_premium", TRUE, PremiumFailText)
    /\ UNCHANGED <<certs, minted, sheets, logged>>

\* issue types that reach the three kinds of logging call
IssueTypes == {"Certificate Issue", "Technical Issue", "Order Inquiry"}

\* the row of this call was written to sheet s, and what the call returned
Logged(s, r, n) ==
    IF r.rows = sheets[s] THEN logged[s]
    ELSE Append(logged[s], [call |-> n, ok |-> r.ok])

\* log_user_details (298-453) and the sheets_service call it dispatches to:
\* log_certificate_issue (377-408), log_technical_issue (477-603), or
\* log_to_sheet("All-Logs", ...) (418-431); their return value is dropped
LogUserDetails(issue, o1, o2) ==
    /\ ToolFrame
    /\ LET n == toolCalls + 1
           cat == IF issue = "Certificate Issue" THEN "Certificate_Issues"
                  ELSE "Technical_Issues"
           r1 == IF issue = "Certificate Issue"
                 THEN LogToSheet(sheets[cat], DataRow(n), o1)
                 ELSE LogTechnicalRow(sheets[cat], DataRow(n), o1)
           \* log_technical_issue leaves through its except before All-Logs
           skipAll == issue = "Technical Issue" /\ ~r1.ok
           r2 == IF skipAll THEN [rows |-> sheets["All-Logs"], ok |-> FALSE]
                 ELSE LogToSheet(sheets["All-Logs"], DataRow(n), o2)
       IN IF issue = "Order Inquiry"
          THEN /\ o1 = "ok"
               /\ sheets' = [sheets EXCEPT !["All-Logs"] = r2.rows]
               /\ logged' = [logged EXCEPT !["All-Logs"] = Logged("All-Logs", r2, n)]
               /\ toolRes' = Returned("log_user_details", ~r2.ok, LoggedText)
          ELSE /\ sheets' = [sheets EXCEPT ![cat] = r1.rows, !["All-Logs"] = r2.rows]
               /\ logged' = [logged EXCEPT ![cat] = Logged(cat, r1, n),
                                           !["All-Logs"] = Logged("All-Logs", r2, n)]
               /\ toolRes' = Returned("log_user_details", ~r1.ok \/ ~r2.ok, LoggedText)
    /\ UNCHANGED <<certs, minted>>

NextTools ==
    \/ PrintOrderDetails
    \/ \E o \in CertOutcomes : GenerateCertificate(o)
    \/ \E c \in {0, 2}, ok \in BOOLEAN, o1 \in CertOutcomes, o2 \in CertOutcomes :
          GenerateCertificates(c, ok, o1, o2)
    \/ \E o \in PremiumOutcomes : ActivatePremium(o)
    \/ \E i \in IssueTypes, o1 \in SheetOutcomes, o2 \in SheetOutcomes :
          LogUserDetails(i, o1, o2)

SpecTools == InitStore /\ [][NextTools]_vars

\* ============================================== the text of one message
\* get_full_email_content puts the body and the image text together
GetFullEmailContent ==
    /\ txt.stage = "parts"
    /\ txt' = [txt EXCEPT !.stage = "content",
                          !.content = CombinedContent(txt.body, txt.ocr)]
    /\ UNCHANGED <<notSide, sendVars, toolVars, agentVars, restVars>>

\* process_email cleans the content (800-801)
CleanContent ==
    /\ txt.stage = "content"
    /\ txt' = [txt EXCEPT !.stage = "cleaned", !.cleaned = CleanHtmlTags(txt.content)]
    /\ UNCHANGED <<notSide, sendVars, toolVars, agentVars, restVars>>

\* save_context hands the cleaned text of a thread that is not new to
\* add_message, which cleans it again and stores it
StoreHuman ==
    /\ txt.stage = "cleaned"
    /\ txt' = [txt EXCEPT !.stage = "stored", !.stored = StoredContent(txt.cleaned)]
    /\ UNCHANGED <<notSide, sendVars, toolVars, agentVars, restVars>>

\* the message parts: a body, and the text read from one image (stripped by
\* extract_text_from_image), empty when the message has no image
Bodies == TextsUpTo(MaxBody)
ImageTexts == {t \in TextsUpTo(MaxOcr) : StripText(t) = t}

InitClean ==
    /\ docs = <<>>
    /\ InitCore
    /\ txt \in {[NoMessage EXCEPT !.stage = "parts", !.body = b, !.ocr = o] :
                   b \in Bodies, o \in ImageTexts}

NextClean == GetFullEmailContent \/ CleanContent \/ StoreHuman

SpecClean == InitClean /\ [][NextClean]_vars

\* ===================================================== get_shared_agent
\* initialize_services() at startup, before the server takes a request,
\* passes the Gmail connection test and preloads the agent (main.py 201,
\* 58-65); when the test fails it returns False with SHARED_AGENT still None
\* and the server starts all the same, which is the case of no Startup step
Startup ==
    /\ created = 0
    /\ \A w \in AgentCallers : ga[w] = IdleGet
    /\ sharedAgent' = 1
    /\ created' = 1
    /\ svc' = [svc EXCEPT !.gmail = TRUE, !.prompt = TRUE]
    /\ UNCHANGED ga
    /\ UNCHANGED <<notSide, notSvc>>

\* the test SHARED_AGENT is None (540-541)
GsaTest(w) ==
    /\ ga[w].stage = "idle"
    /\ ga[w].got = 0
    /\ ga' = [ga EXCEPT ![w].stage = IF sharedAgent = 0 THEN "create" ELSE "return"]
    /\ UNCHANGED <<sharedAgent, created>>
    /\ UNCHANGED <<notSide, sendVars, toolVars, txt, restVars>>

\* create_shared_agent() runs and returns a new agent and tool list (464-536)
GsaCreate(w) ==
    /\ ga[w].stage = "create"
    /\ created' = created + 1
    /\ ga' = [ga EXCEPT ![w].stage = "assign", ![w].made = created + 1]
    /\ UNCHANGED sharedAgent
    /\ UNCHANGED <<notSide, sendVars, toolVars, txt, restVars>>

\* SHARED_AGENT, SHARED_TOOLS = <the new pair> (542)
GsaAssign(w) ==
    /\ ga[w].stage = "assign"
    /\ sharedAgent' = ga[w].made
    /\ ga' = [ga EXCEPT ![w].stage = "return"]
    /\ UNCHANGED created
    /\ UNCHANGED <<notSide, sendVars, toolVars, txt, restVars>>

\* return SHARED_AGENT, SHARED_TOOLS (543)
GsaReturn(w) ==
    /\ ga[w].stage = "return"
    /\ ga' = [ga EXCEPT ![w].stage = "idle", ![w].got = sharedAgent]
    /\ UNCHANGED <<sharedAgent, created>>
    /\ UNCHANGED <<notSide, sendVars, toolVars, txt, restVars>>

\* the caller drops the pair it got; it may call again
GsaDone(w) ==
    /\ ga[w].stage = "idle"
    /\ ga[w].got # 0
    /\ ga' = [ga EXCEPT ![w] = IdleGet]
    /\ UNCHANGED <<sharedAgent, created>>
    /\ UNCHANGED <<notSide, sendVars, toolVars, txt, restVars>>

NextAgent ==
    \/ Startup
    \/ \E w \in AgentCallers : GsaTest(w)
    \/ \E w \in AgentCallers : GsaCreate(w)
    \/ \E w \in AgentCallers : GsaAssign(w)
    \/ \E w \in AgentCallers : GsaReturn(w)
    \/ \E w \in AgentCallers : GsaDone(w)

SpecAgent == InitStore /\ [][NextAgent]_vars

\* ================================================================ /health
\* get_shared_agent() is not None: the call returns the pair
\* (SHARED_AGENT, SHARED_TOOLS), and a tuple is not None
PairIsNotNone(agent) == TRUE

\* health_check (main.py 85-96): the handler reads gmail_service and
\* system_prompt and calls get_shared_agent(), which creates the agent when
\* SHARED_AGENT is None (agent_main_with_mongodb.py 538-543)
Health ==
    /\ LET agent == IF sharedAgent = 0 THEN created + 1 ELSE sharedAgent IN
       /\ created' = IF sharedAgent = 0 THEN created + 1 ELSE created
       /\ sharedAgent' = agent
       /\ svc' = [svc EXCEPT !.health = [gmail |-> svc.gmail,
                                         agent |-> PairIsNotNone(agent),
                                         system_prompt |-> svc.prompt,
                                         answered |-> TRUE]]
    /\ UNCHANGED ga
    /\ UNCHANGED <<notSide, notSvc>>

NextHealth == NextAgent \/ Health

SpecHealth == InitStore /\ [][NextHealth]_vars

\* ============================== log_user_details called by the executor
\* the categories the model may pass: those of the tool description and one
\* that has no branch of its own
LogCategories == {"Certificate Issue", "Premium Access", "Subscription Issue",
                  "Refund Request", "Technical Issue", "Payment Issue",
                  "Account Deletion", "Order Inquiry", "Feedback"}
MessageArgs == {"", "My app crashes"}
OrderArgs == {"", "GPA-1"}
CourseArgs == {"", "Python"}
EmailArgs == {"", "a@x.com"}

\* log_user_details(issue_type, app_name, initial_message, ...) (298-453)
\* with every Sheets request succeeding
LogDetails(issue, message, order, course, email) ==
    /\ logcall' = [issue |-> issue, message |-> message, order |-> order,
                   course |-> course, email |-> email,
                   rows |-> RowsWritten(issue, message, order, course, email)]
    /\ UNCHANGED <<notSide, sendVars, toolVars, txt, agentVars>>
    /\ UNCHANGED <<resp, svc, fetch, trace, owner, stuck>>

NextLog ==
    \E i \in LogCategories, m \in MessageArgs, o \in OrderArgs, c \in CourseArgs,
       e \in EmailArgs :
        LogDetails(i, m, o, c, e)

SpecLog == InitStore /\ [][NextLog]_vars

\* ================================================================ claims
\* value of metadata.<field> in the document find_one returns for thread t
MetaOf(coll, t, field) ==
    LET i == FindOne(coll, t) IN IF i = 0 THEN Absent ELSE coll[i].metadata[field]

AllClientsIdle == \A c \in Clients : pc[c] = "idle"

\* the entries client c appended to thread t, in the order it appended them
AppendsTo(c, t) ==
    LET OnThread(a) == a[1] = t
        calls == SelectSeq(appended[c], OnThread)
    IN [i \in 1..Len(calls) |-> calls[i][2]]

\* the messages of a sequence that client c wrote
WrittenBy(msgs, c) ==
    LET ByClient(e) == e.content.src = c IN SelectSeq(msgs, ByClient)

\* every document of the collection was inserted by add_message
OnlyAddMessageDocs == \A i \in 1..Len(docs) : docs[i].created_at # NoTime

\* C1: once every add_message call has returned, the messages property of a
\* thread written by add_message alone returns as many messages as
\* add_message was called for it, and the messages of each caller appear in
\* the order that caller appended them.
C1_NoLostAppend ==
    (AllClientsIdle /\ OnlyAddMessageDocs) =>
        \A t \in Threads :
            LET m == Messages(docs, t) IN
            /\ Len(m) = Len(AppendsTo(1, t)) + Len(AppendsTo(2, t))
            /\ \A c \in Clients : WrittenBy(m, c) = AppendsTo(c, t)

\* C2: the collection never holds two documents with the same thread_id.
C2_OneDocPerThread ==
    \A t \in Threads : Cardinality(Matching(docs, t)) <= 1

\* C3: across /process-emails requests process_email runs at most once for
\* a message id, and at most one reply is sent for it.
C3_HandledAtMostOnce ==
    \A m \in 1..MaxMail : runs[m] <= 1 /\ sends[m] <= 1

\* C4: when process_email returns for a thread that held more than eight
\* messages on entry, its result is the fixed "exceeded" response, the agent
\* was not invoked for the message and the log is as long as it was.
C4_LengthGuard ==
    (pc[Monitor] = "mon_reply" /\ loc[Monitor].nmsgs > MaxThreadMessages) =>
        /\ loc[Monitor].hasResult
        /\ loc[Monitor].response = ExceededText
        /\ agentRuns[loc[Monitor].mail] = 0
        /\ Len(Messages(docs, loc[Monitor].thread)) = loc[Monitor].nmsgs

C4_Witness ==
    /\ pc[Monitor] = "mon_reply"
    /\ loc[Monitor].nmsgs > MaxThreadMessages
    /\ loc[Monitor].response = ExceededText

\* C5: when the agent's answer is NO_RESPONSE_NEEDED, process_email returns
\* None with the thread's status set to 'Ignored', and no reply is ever sent
\* for a message whose stored answer is the sentinel.
AnsweredWith(m, text) ==
    \E i \in 1..Len(docs) : \E j \in 1..Len(docs[i].chat) :
        docs[i].chat[j] = [role |-> "ai", content |-> [src |-> m, text |-> text]]
C5_Sentinel ==
    /\ (pc[Monitor] = "mon_reply" /\ loc[Monitor].output = Sentinel) =>
          /\ ~loc[Monitor].hasResult
          /\ MetaOf(docs, loc[Monitor].thread, "status") = "Ignored"
    /\ \A m \in 1..Len(mail) : AnsweredWith(m, Sentinel) => sends[m] = 0

C5_Witness ==
    /\ pc[Monitor] = "mon_reply"
    /\ loc[Monitor].output = Sentinel
    /\ ~loc[Monitor].hasResult
    /\ MetaOf(docs, loc[Monitor].thread, "status") = "Ignored"

\* C6: an agent run makes at most six iterations, and the run that reaches
\* the cap leaves process_email with the generic apology as its response.
C6_CapStep ==
    \A w \in Procs :
        /\ loc[w].iter <= MaxIterations
        /\ (pc[w] = "ag_iter" /\ loc[w].iter = MaxIterations /\ pc'[w] # "ag_iter") =>
              loc'[w].response = ApologyText
C6_CapIsError == [][C6_CapStep]_vars

\* what C7 says of a process_email call that has returned
C7_Completed ==
    LET l == loc[Monitor]
        m == Messages(docs, l.thread)
    IN /\ l.hasResult
       /\ l.response = l.output
       /\ Len(m) = l.nmsgs + 2
       /\ m[l.nmsgs + 1].role = "human"
       /\ m[l.nmsgs + 1].content.src = l.mail
       /\ m[l.nmsgs + 2] = [role |-> "ai",
                            content |-> [src |-> l.mail, text |-> l.output]]
       /\ MetaOf(docs, l.thread, "subject") = SubjectOf(l.thread)
       /\ MetaOf(docs, l.thread, "sender_name") = mail[l.mail].sender
       /\ MetaOf(docs, l.thread, "status") = "Responded"
       /\ MetaOf(docs, l.thread, "last_response") = Snippet(l.response)
       /\ MetaOf(docs, l.thread, "last_response_time") # Absent

\* C7 as stated: when process_email returns after the model gave a final
\* answer other than the sentinel, the log is two entries longer than on
\* entry, the human message of this mail followed by the assistant's answer,
\* and subject, sender_name, status ('Responded'), last_response and
\* last_response_time hold the values of this call.
C7_AnyOtherAnswer ==
    (pc[Monitor] = "mon_reply" /\ loc[Monitor].output \in ModelAnswers \ {Sentinel})
        => C7_Completed

\* C7 amended: the same, for a final answer that is not the sentinel once the
\* whitespace around it is stripped.
C7_NormalCompletion ==
    (pc[Monitor] = "mon_reply" /\ loc[Monitor].output \in ModelAnswers
        /\ Strip(loc[Monitor].output) # Sentinel) => C7_Completed

C7_Witness ==
    /\ pc[Monitor] = "mon_reply"
    /\ loc[Monitor].output = ReplyText
    /\ loc[Monitor].nmsgs > 0
    /\ Len(Messages(docs, loc[Monitor].thread)) = loc[Monitor].nmsgs + 2

\* C8: a step of update_metadata_field(field, value) on thread t sets
\* metadata[field] of the thread's document, leaves every other metadata
\* field, the chat and every other document as they were, and creates the
\* document when the thread had none.
C8_Frame(t, field, value) ==
    LET i == FindOne(docs, t) IN
    IF i = 0
    THEN /\ Len(docs') = Len(docs) + 1
         /\ SubSeq(docs', 1, Len(docs)) = docs
         /\ docs'[Len(docs')].thread_id = t
         /\ docs'[Len(docs')].metadata = [EmptyMeta EXCEPT ![field] = value]
         /\ docs'[Len(docs')].chat = <<>>
    ELSE /\ Len(docs') = Len(docs)
         /\ \A j \in 1..Len(docs) : j # i => docs'[j] = docs[j]
         /\ docs'[i].metadata[field] = value
         /\ \A g \in MetaFields \ {field} : docs'[i].metadata[g] = docs[i].metadata[g]
         /\ docs'[i].chat = docs[i].chat
         /\ docs'[i].hasChat = docs[i].hasChat
         /\ docs'[i].thread_id = docs[i].thread_id
         /\ docs'[i].user_email = docs[i].user_email
         /\ docs'[i].created_at = docs[i].created_at
C8_FieldUpdateStep ==
    (pc' = pc /\ docs' # docs) =>
        \A t \in Threads, f \in StoreFields :
            UpdateMetadataField(t, f, StoreValue(f)) => C8_Frame(t, f, StoreValue(f))
C8_FieldUpdateFrame == [][C8_FieldUpdateStep]_vars

C8_Witness ==
    \E i \in 1..Len(docs) :
        /\ docs[i].metadata["status"] = "Responded"
        /\ docs[i].metadata["subject"] = "X"
        /\ Len(docs[i].chat) > 0

\* C9: in one run of the monitor loop process_email is called at most once
\* for a message id.
C9_MonitorDedup == \A m \in 1..MaxMail : runs[m] <= 1

C9_Witness ==
    \E m \in 1..Len(mail) :
        /\ pc[Monitor] = "idle"
        /\ m \in processed
        /\ HeadUnread(mail) = m
        /\ runs[m] = 1

\* C10: a fetch that finds a message of the system's own address at the head
\* of the unread messages does not hand it to process_email and leaves it
\* marked read.
C10_SelfStep ==
    LET h == HeadUnread(mail) IN
    (h # 0 /\ FromSelf(mail[h].sender)
        /\ (MonitorFetch(TRUE, TRUE) \/ \E w \in ApiWorkers : ApiRequest(w, TRUE))) =>
        /\ runs' = runs
        /\ ~mail'[h].unread
C10_SelfMarkedRead == [][C10_SelfStep]_vars

\* the replies of the outbox that carry file f
RepliesWith(f) == {i \in 1..Len(outbox) : f \in outbox[i].files}

\* C11: every certificate file that send_email_reply found in the directory
\* is attached to the reply it sends, after a send that succeeded none of
\* the files attached to it is still in the directory, and no certificate
\* file is attached to two replies that were sent.
C11_SingleUse ==
    /\ \A i \in 1..Len(outbox) : outbox[i].listed \subseteq outbox[i].files
    /\ \A w \in ApiWorkers :
          (snd[w].stage = "idle" /\ snd[w].result = "sent") =>
              snd[w].attached \cap certs = {}
    /\ \A f \in CertFiles : Cardinality(RepliesWith(f)) <= 1

\* C12: one send_email_reply call makes at most three messages().send
\* calls, and a call that failed with an error that is not transient is
\* not followed by another.
C12_Step ==
    \A w \in ApiWorkers :
        /\ snd'[w].calls <= StopAfterAttempt
        /\ (SendCall(w, "fatal", FALSE) \/ SendCall(w, "fatal", TRUE)) =>
               (snd'[w].stage = "idle" /\ snd'[w].result = "raised")
C12_BoundedRetry == [][C12_Step]_vars

\* the returned text tells the model that the operation failed
ReportsFailure(text) == text \in {CertFailText, PartialText, PremiumFailText}

\* C13: a tool handler call returns text, it does not raise, and when its
\* external call or its sheet write failed the text reports the failure.
C13_ToolsReport ==
    toolRes.tool # "none" =>
        /\ ~toolRes.raised
        /\ toolRes.failed => ReportsFailure(toolRes.text)

\* every logging call that wrote to tab s returned success
AllLoggedOk(s) == \A i \in 1..Len(logged[s]) : logged[s][i].ok

\* the rows of the calls logged to tab s, the newest first
NewestFirst(s) ==
    [i \in 1..Len(logged[s]) |-> DataRow(logged[s][Len(logged[s]) + 1 - i].call)]

\* C15: on every tab the rows under the header are the rows the logging
\* calls wrote, the newest directly under the header and the older ones
\* below it in that order.
C15_NewestRowFirst ==
    \A s \in SheetNames :
        AllLoggedOk(s) => sheets[s] = <<HeaderRow>> \o NewestFirst(s)

\* C16: after N successful log_to_sheet calls on a tab that held only its
\* header, the tab holds the header and exactly the N rows logged.
C16_RowsKept ==
    \A s \in {"All-Logs", "Certificate_Issues"} :
        AllLoggedOk(s) =>
            /\ Len(sheets[s]) = 1 + Len(logged[s])
            /\ sheets[s][1] = HeaderRow
            /\ {sheets[s][i] : i \in 2..Len(sheets[s])}
                  = {DataRow(logged[s][i].call) : i \in 1..Len(logged[s])}

\* what C14 says of a process_email call that failed on the way
C14_FailureAnswered ==
    (pc[Monitor] = "mon_reply" /\ loc[Monitor].failed) =>
        /\ loc[Monitor].hasResult
        /\ loc[Monitor].response \in {ApologyText, ErrorText}

\* C14 as stated: process_email always returns; it returns None only when
\* the model's final answer is the sentinel, and a call in which the model
\* or agent run, the memory, the message content or the thread store failed
\* returns a result whose response is an apology.
C14_NoneOnlyForSentinel ==
    /\ C14_FailureAnswered
    /\ (pc[Monitor] = "mon_reply" /\ ~loc[Monitor].hasResult) =>
           loc[Monitor].output = Sentinel

\* C14 amended: the same, with None returned only when the final answer is
\* the sentinel once the whitespace around it is stripped.
C14_NoneOnlyForStrippedSentinel ==
    /\ C14_FailureAnswered
    /\ (pc[Monitor] = "mon_reply" /\ ~loc[Monitor].hasResult) =>
           Strip(loc[Monitor].output) = Sentinel

C14_Witness ==
    /\ pc[Monitor] = "mon_reply"
    /\ loc[Monitor].failed
    /\ loc[Monitor].response = ErrorText
    /\ agentRuns[loc[Monitor].mail] = 1

\* the message carries image text and was cleaned
HasBlock == txt.ocr # <<>> /\ txt.stage \in {"cleaned", "stored"}

\* C17: the 'EXTRACTED IMAGE CONTENT (Attachment N):' block, marker line and
\* image text, stands character for character in what clean_html_tags
\* returns and in the human content add_message stores.
C17_BlockVerbatim ==
    HasBlock =>
        /\ HasInfix(txt.cleaned, BlockOf(txt.ocr))
        /\ txt.stage = "stored" => HasInfix(txt.stored, BlockOf(txt.ocr))

\* the callers that hold a pair get_shared_agent returned to them
Holders == {w \in AgentCallers : ga[w].got # 0}

\* C18: whatever the interleaving of the callers of get_shared_agent,
\* create_shared_agent runs at most once and all callers get the same agent.
C18_CreatedOnce ==
    /\ created <= 1
    /\ \A v, w \in Holders : ga[v].got = ga[w].got

\* the thread ids of the documents of a collection
ThreadIds(coll) == {coll[i].thread_id : i \in 1..Len(coll)}

\* a document with all six fields of the layout (thread_id, metadata and
\* last_updated are in every document of the model)
Complete(d) == d.user_email # Absent /\ d.hasChat /\ d.created_at # NoTime

\* C19: every document a store write creates, the insert of add_message or
\* the upsert of update_metadata_field, has user_email, thread_id, chat,
\* metadata, created_at and last_updated.
C19_Step ==
    \A i \in 1..Len(docs') :
        docs'[i].thread_id \notin ThreadIds(docs) => Complete(docs'[i])
C19_CreatedComplete == [][C19_Step]_vars

\* the stored screenshot references of thread t, Absent when it has none
ShotLinks(coll, t) ==
    LET i == FindOne(coll, t) IN
    IF i = 0 THEN Absent ELSE coll[i].metadata["screenshot_drive_links"]

\* C20: a reference stored under screenshot_drive_links stays unchanged
\* through every step that fetches or processes a later message of the
\* thread; only cleanup_drive_files ends it.
C20_Step ==
    \A t \in Threads :
        ShotLinks(docs, t) \notin {Absent, EmptyLinks}
            => \/ ShotLinks(docs', t) = ShotLinks(docs, t)
               \/ CleanupDriveFiles(t)
C20_LinksKept == [][C20_Step]_vars

\* the categories that have a tab of their own, and the tab
OwnTab ==
    [c \in {"Certificate Issue", "Premium Access", "Subscription Issue",
            "Refund Request", "Technical Issue", "Payment Issue", "Account Deletion"} |->
        CASE c = "Certificate Issue" -> "Certificate_Issues"
          [] c \in {"Premium Access", "Subscription Issue"} -> "Subscription_Issues"
          [] c = "Refund Request" -> "Refund"
          [] c = "Technical Issue" -> "Technical_Issues"
          [] c = "Payment Issue" -> "Payment_Issues"
          [] OTHER -> "Account_Deletion"]

\* the rows of the last call that went to a tab
RowsTo(tab) == {i \in 1..Len(logcall.rows) : logcall.rows[i].sheet = tab}

\* C21: a log_user_details call for a category with a tab of its own writes
\* one row to that tab and one to All-Logs, each as wide as the tab's header,
\* the All-Logs row carrying the category passed as its issue type; a call
\* for any other category writes one row, to All-Logs.
C21_RowsPerCategory ==
    logcall.issue # "none" =>
        /\ \A i \in 1..Len(logcall.rows) :
              Len(logcall.rows[i].row) = Len(SheetsConfig[logcall.rows[i].sheet])
        /\ Cardinality(RowsTo("All-Logs")) = 1
        /\ IF logcall.issue \in DOMAIN OwnTab
           THEN /\ Len(logcall.rows) = 2
                /\ Cardinality(RowsTo(OwnTab[logcall.issue])) = 1
                /\ \A i \in RowsTo("All-Logs") : logcall.rows[i].row[2] = logcall.issue
           ELSE Len(logcall.rows) = 1

\* the keys every /process-emails response is said to carry
ResponseKeys == {"status", "emails_found", "emails_processed", "responses_sent",
                 "errors", "timestamp"}

\* C22: every response of /process-emails carries the keys status,
\* emails_found, emails_processed, responses_sent, errors and timestamp, with
\* responses_sent <= emails_processed <= emails_found <= 1.
C22_ResponseShape ==
    resp \notin {NotRecorded, NoJson} =>
        /\ ResponseKeys \subseteq DOMAIN resp
        /\ resp.responses_sent <= resp.emails_processed
        /\ resp.emails_processed <= resp.emails_found
        /\ resp.emails_found <= 1

\* C23: a /health request reports for mail, agent and prompt whether each
\* has been initialized, the agent flag being false while no shared agent
\* exists, and it changes no state: it does not create the agent.
C23_Step ==
    Health =>
        /\ svc'.health.gmail = svc.gmail
        /\ svc'.health.system_prompt = svc.prompt
        /\ svc'.health.agent = (sharedAgent # 0)
        /\ UNCHANGED <<sharedAgent, created>>
C23_HealthReadsOnly == [][C23_Step]_vars

\* what C24 says of a step of clear() on thread t
C24_Frame(t) ==
    LET i == FindOne(docs, t) IN
    /\ Len(docs') = Len(docs)
    /\ \A j \in 1..Len(docs) : j # i => docs'[j] = docs[j]
    /\ Messages(docs', t) = <<>>
    /\ i # 0 =>
          /\ docs'[i].chat = <<>>
          /\ docs'[i].thread_id = t
          /\ docs'[i].user_email = docs[i].user_email
          /\ docs'[i].metadata = docs[i].metadata
          /\ docs'[i].created_at = docs[i].created_at
          /\ docs'[i].last_updated = docs[i].last_updated

\* C24: clear() on a thread empties its message log and leaves the document
\* in place with its thread_id, user_email and every metadata field as they
\* were; a later messages read gives the empty sequence; on a thread without
\* a document it creates nothing.
C24_Step == \A t \in Threads : Clear(t) => C24_Frame(t)
C24_ClearFrame == [][C24_Step]_vars

\* a document add_message inserted, with a metadata field set, after clear()
C24_Witness ==
    \E i \in 1..Len(docs) :
        /\ docs[i].created_at # NoTime
        /\ docs[i].chat = <<>>
        /\ docs[i].user_email # Absent
        /\ docs[i].metadata["status"] = "Responded"

\* the call goes on with another attempt, or has raised to its caller
RetriedOrRaised(old, new) ==
    \/ new.stage = "list" /\ new.attempt = old.attempt + 1
           /\ new.attempt <= StopAfterAttempt
    \/ old.attempt = StopAfterAttempt /\ new.stage = "idle" /\ new.result = "raised"

\* C25: a transient transport error raised while fetch_emails_after_time
\* lists or reads messages leads to another attempt, at most three in all,
\* and after the third to an error raised to the caller.
C25_Step ==
    /\ fetch'.attempt <= StopAfterAttempt
    /\ (FetchList("transient")
           \/ FetchGet("transient", TRUE) \/ FetchGet("transient", FALSE))
          => RetriedOrRaised(fetch, fetch')
C25_TransientRetried == [][C25_Step]_vars

\* the names of the tools create_shared_agent registers
RegisteredTools == ToolNames \ {"unknown_tool"}

\* C26: at every iteration of an agent run the executor accepts a call of
\* any registered tool, whatever was called before, and runs that tool: a
\* call of generate_certificate, generate_certificates or activate_premium
\* with no earlier log_user_details call is neither rejected nor altered.
C26_AnyOrderAccepted ==
    (trace.on /\ pc[Monitor] = "ag_iter" /\ ShouldContinue(loc[Monitor].iter)) =>
        \A tool \in RegisteredTools :
            ENABLED (AgentToolCall(Monitor, tool) /\ trace' = Called(trace, tool))

\* a run that ended with a reply after an action tool ran and
\* log_user_details never did
C26_Witness ==
    /\ pc[Monitor] = "mon_reply"
    /\ loc[Monitor].hasResult
    /\ ~trace.logged
    /\ "generate_certificate" \in trace.early
    /\ "activate_premium" \in trace.early

\* human, ai, human, ai, ...
Paired(msgs) ==
    /\ Len(msgs) % 2 = 0
    /\ \A i \in 1..Len(msgs) : msgs[i].role = IF i % 2 = 1 THEN "human" ELSE "ai"

C28_OwnCertificatesOnly ==
    \A i \in 1..Len(outbox) :
        \A f \in outbox[i].files : owner.of[f] = outbox[i].to

\* a message of another sender that is in the mailbox, unread
Waiting(m) == m <= Len(mail) /\ mail[m].unread /\ ~FromSelf(mail[m].sender)

\* C29: under fair polling every unread message of another sender is
\* eventually handed to process_email by the monitor loop, also when
\* mark_message_as_read keeps failing for some message.
C29_EveryMessageHandled == \A m \in 1..MaxMail : Waiting(m) ~> (runs[m] >= 1)

\* C30: with /process-emails asked again and again, every unread message
\* of another sender is eventually processed, also when an unread message
\* of the system's own address is in the mailbox.
C30_EveryMessageProcessed == \A m \in 1..MaxMail : Waiting(m) ~> (runs[m] > 0)

====
